---- MODULE Spec2Model ----
(***************************************************************************)
(* A model of NDGRClient (src/ndgr_client): the length-prefixed protobuf   *)
(* frame reader, the retrying protobuf fetcher, the backward walk of       *)
(* downloadBackwardComments and the live pipeline of streamComments.       *)
(*                                                                         *)
(* Each part of the program has its own specification over its own         *)
(* variables; the variables of the other parts stay at their idle values.  *)
(*   SpecReader    one response body decoded by ProtobufStreamReader       *)
(*   SpecFetch     fetchProtobufStream: attempts, faults, waits            *)
(*   SpecBackward  downloadBackwardComments                                *)
(*   SpecLive      streamComments                                          *)
(*   SpecConstruct NDGRClient(nicolive_id) and the client's first request  *)
(*   SpecAdmit     the admission tests of the live and the backward path   *)
(*   SpecResolve   fetchNicoLiveProgramInfo: fallback and timeshift         *)
(*   SpecHandshake fetchNDGRViewURI                                        *)
(*   SpecMonitor   fetch_program_info beside the main loop                  *)
(*   SpecLoop   the main loop of stream_comments_inner and its finally      *)
(***************************************************************************)
EXTENDS Integers, Sequences, FiniteSets, TLC

VARIABLES
    \* ---- ProtobufStreamReader and fetchProtobufStream ----
    stream,      \* the bytes of the response body the server sends for the URI
    pos,         \* how many bytes of the body the current attempt has received
    buffer,      \* ProtobufStreamReader.buffer of the current attempt
    out,         \* the payloads handed to the consumer so far, in order
    fpc,         \* position in fetchProtobufStream
    attempt,     \* the loop variable of `for attempt in range(max_retries)`
    fetchLog,    \* history: the GETs and waits performed, in order
    lastOp,      \* history: the last reader operation ("add", "unshift")
    lastRet,     \* history: what the last unshiftChunk returned
    bufBefore,   \* history: the buffer before the last reader operation
    lastChunk,   \* history: the chunk of the last addNewChunk
    fetchErr,    \* the exception fetchProtobufStream raised to its consumer
    \* ---- downloadBackwardComments ----
    bpc,                \* position in downloadBackwardComments
    bserver,            \* which packed segments the server of this run holds
    b_is_first_time,    \* is_first_time
    b_ready_for_next,   \* ready_for_next (NoNext for None)
    backward_api_uri,   \* backward_api_uri (NoUri for None, 0 for '')
    comments,           \* comments, the accumulator
    viewReqs,           \* history: the `at` of every view request, in order
    sliceNexts,         \* history: how many Next entries each slice yielded
    lastSlice,          \* history: the entries of the last slice and how many were read
    walkGets,           \* history: the URI of every Backward GET, in order
    served,             \* history: what the server answered to each Backward GET
    bresult,            \* what downloadBackwardComments returned
    berr,               \* the exception downloadBackwardComments raised
    \* ---- streamComments ----
    lpc,                   \* position of streamComments: "start", "timeshift",
                           \* "connecting", "handshake", "running", "returned",
                           \* "closed" (by the consumer), "finally" (entered
                           \* on the consumer's cancellation) or "raised"
    instance,              \* how many times stream_comments_inner() was called
    jikkyo_channel_id,     \* self.jikkyo_channel_id: TRUE for a jk handle
    is_first_time,         \* is_first_time of the running instance
    ready_for_next,        \* ready_for_next of the running instance
    chunked_entries_task,  \* the task running fetch_chunked_entries()
    active_segments,       \* active_segments: URI -> task of fetch_chunked_message
    comment_queue,         \* comment_queue
    program_info_task,     \* the task running fetch_program_info(): "polling",
                           \* "timeshift" inside a poll, or what it returned
    queue_get,             \* the task running comment_queue.get() of this round
    done,                  \* what is left of `done` while a comment is yielded
    yielded,               \* history: the comments the caller received, in order
    faults,                \* history: how many requests the environment failed
    liveErr,               \* the exception streamComments raised to its caller
    is_logged_in,          \* self.is_logged_in
    lserver,               \* what the view server of this run sends
    lenv,                  \* what else the environment of this run does
    segment_tasks,         \* the running fetch_chunked_message tasks, by task id
    prior,                 \* the instance the consumer has left, and its tasks
    resolved,              \* history: the ProgramInfo each instance resolved first
    polledEnded,           \* history: a monitor poll of an lv handle saw ENDED
    opened,                \* history: the kinds of connection and task ever started,
                           \* a connection counting from the attempt to make it
    segment_gets,          \* history: how many GETs each segment URI received
    view_reqs,             \* history: the view requests of the running instance
    started,               \* history: the workers it created, in order: the URI and
                           \* the view request and entry that announced it
    worker_failed,         \* history: the URIs whose worker ended in its `except`
    puts,                  \* history: the comments put on the running instance's queue
    \* ---- NDGRClient.__init__ ----
    cpc,                   \* position: "new", "constructed", "raised", "fetched"
    arg_nicolive_id,       \* the nicolive_id passed to the constructor
    nicolive_id,           \* self.nicolive_id
    self_jikkyo_channel_id,\* self.jikkyo_channel_id (None for None)
    watched,               \* history: the handles of the watch pages requested
    cerr,                  \* the exception the constructor raised
    \* ---- the admission tests, side by side ----
    sent,           \* the ChunkedMessages the server sends, to either path
    live_read,      \* how many of them fetchChunkedMessages has read
    live_yielded,   \* what fetchChunkedMessages has yielded, in order
    packed_read,    \* how many the loop of downloadBackwardComments has read
    temp_comments,  \* temp_comments of downloadBackwardComments
    \* ---- fetchNicoLiveProgramInfo ----
    npc,   \* position in fetchNicoLiveProgramInfo
    nicolive_id_is_ch,   \* self.nicolive_id.startswith('ch')
    n_is_logged_in,   \* self.is_logged_in of the resolving client
    logged_in_read,   \* history: what the test of the timeshift activation read
    login_calls,      \* history: the changes login() made to the cookie jar
    now,   \* datetime.now().timestamp() at the fallback test
    program_info,   \* program_info of fetchNicoLiveProgramInfo
    first_program_info,   \* history: what the first watch page gave
    current_lv_id,   \* current_lv_id read off the channel page
    requests,   \* history: the requests sent, in order, with their outcome
    swallowed,   \* history: the `except` of the fallback has caught a failure
    nerr,  \* the exception fetchNicoLiveProgramInfo raised
    \* ---- fetchNDGRViewURI ----
    wpc,   \* position in fetchNDGRViewURI
    webSocketUrl,   \* the argument: "" or a URL
    ws_frames,   \* the frames the server sends before it closes the socket
    ws_read,   \* how many of them recv() has returned
    ws_log,   \* history: what was done on the socket, in order
    view_uri,   \* what fetchNDGRViewURI returned
    werr,  \* the exception fetchNDGRViewURI raised
    \* ---- fetch_program_info beside the main loop ----
    mon_pc,   \* fetch_program_info(): "sleeping", "timeshift", "returned" or "failed"
    mon_jk,   \* self.jikkyo_channel_id is not None
    mon_logged_in,   \* self.is_logged_in of the monitoring client
    nicolive_program_info,   \* the ProgramInfo stream_comments_inner tracks
    polls,   \* history: the polls made, in order
    mon_result,   \* what fetch_program_info() returned
    stream_pc,   \* the main loop beside the monitor
    serr,  \* the exception raised out of the main loop
    \* ---- the main loop of stream_comments_inner and its finally ----
    loop_pc,   \* the generator: "waiting", "yielded", "suspended"; in its
               \* `finally` "gathering" or, when cancelled, "cancelled"; then
               \* "closed" or "raised"
    loop_tasks,   \* every task the instance has created, by creation order
    loop_wait,   \* the tasks handed to asyncio.wait in this round
    loop_done,   \* the `done` set still to be handled
    loop_queue,   \* comment_queue of the instance
    loop_yielded,   \* what the instance has yielded
    loop_puts   \* history: the comments put so far

readerVars == <<stream, pos, buffer, out, fpc, attempt, fetchLog,
                lastOp, lastRet, bufBefore, lastChunk, fetchErr>>

backVars == <<bpc, bserver, b_is_first_time, b_ready_for_next, backward_api_uri,
              comments, viewReqs, sliceNexts, lastSlice, walkGets, served, bresult,
              berr>>

liveVars == <<lpc, instance, jikkyo_channel_id, is_first_time, ready_for_next,
              chunked_entries_task, active_segments, comment_queue,
              program_info_task, queue_get, done, yielded, faults, liveErr,
              is_logged_in, lserver, lenv, segment_tasks, prior, resolved, polledEnded, opened,
              segment_gets, view_reqs, started, worker_failed, puts>>

constructVars == <<cpc, arg_nicolive_id, nicolive_id, self_jikkyo_channel_id,
                   watched, cerr>>

admitVars == <<sent, live_read, live_yielded, packed_read, temp_comments>>

resolveVars == <<npc, nicolive_id_is_ch, n_is_logged_in, logged_in_read, login_calls, now, program_info,
                 first_program_info, current_lv_id, requests, swallowed, nerr>>

handshakeVars == <<wpc, webSocketUrl, ws_frames, ws_read, ws_log, view_uri, werr>>

monitorVars == <<mon_pc, mon_jk, mon_logged_in, nicolive_program_info, polls, mon_result, stream_pc, serr>>

loopVars == <<loop_pc, loop_tasks, loop_wait, loop_done, loop_queue, loop_yielded, loop_puts>>

vars == <<readerVars,
          backVars,
          liveVars,
          constructVars,
          admitVars,
          resolveVars,
          handshakeVars,
          monitorVars,
          loopVars>>

\* What a step of the reader or the fetcher leaves alone, and likewise for
\* downloadBackwardComments and for streamComments.
otherThanFetch == <<backVars,
      liveVars,
      constructVars,
      admitVars,
      resolveVars,
      handshakeVars,
      monitorVars,
      loopVars>>
otherThanBackward == <<readerVars,
      liveVars,
      constructVars,
      admitVars,
      resolveVars,
      handshakeVars,
      monitorVars,
      loopVars>>
otherThanLive == <<readerVars,
      backVars,
      constructVars,
      admitVars,
      resolveVars,
      handshakeVars,
      monitorVars,
      loopVars>>
otherThanConstruct == <<readerVars,
      backVars,
      liveVars,
      admitVars,
      resolveVars,
      handshakeVars,
      monitorVars,
      loopVars>>
otherThanAdmit == <<readerVars,
      backVars,
      liveVars,
      constructVars,
      resolveVars,
      handshakeVars,
      monitorVars,
      loopVars>>
otherThanResolve == <<readerVars,
      backVars,
      liveVars,
      constructVars,
      admitVars,
      handshakeVars,
      monitorVars,
      loopVars>>
otherThanHandshake == <<readerVars,
      backVars,
      liveVars,
      constructVars,
      admitVars,
      resolveVars,
      monitorVars,
      loopVars>>
otherThanMonitor == <<readerVars,
      backVars,
      liveVars,
      constructVars,
      admitVars,
      resolveVars,
      handshakeVars,
      loopVars>>
otherThanLoop == <<readerVars,
      backVars,
      liveVars,
      constructVars,
      admitVars,
      resolveVars,
      handshakeVars,
      monitorVars>>

-----------------------------------------------------------------------------
(* Bounds of the model.                                                    *)

\* Longest payload of a frame in the byte streams fed to the reader.
MaxPayload == 1
\* Most frames in one byte stream fed to the reader.
MaxFrames == 2
\* Padding bytes of the widest length prefix fed to the reader: a prefix with
\* WidePad padding bytes is WidePad + 1 bytes wide.
WidePad == 10
\* Most view slices downloadBackwardComments requests in a run of the model.
MaxSlices == 2
\* Most entries one view slice delivers.
MaxEntries == 2
\* Longest chain of packed segments a server of the model holds.
MaxSegs == 3
\* Most requests the environment fails in one run of streamComments.
MaxFaults == 1
\* Most supervisor instances (calls of stream_comments_inner) in one run.
MaxInstances == 2
\* Longest handle passed to the constructor.
MaxHandleLen == 4
\* Most ChunkedMessages sent to the two paths for comparison.
MaxSent == 2
\* A queue capacity the servers of the model can exceed.
TestedCapacity == 2
\* Most frames the WebSocket server sends before it closes the socket.
MaxWsFrames == 3
\* Most polls of the monitor in one run.
MaxPolls == 3
\* Most comments the segment worker puts in one run of the main loop.
MaxLoopPuts == 3

-----------------------------------------------------------------------------
(* Bytes, varints, frames.                                                 *)

\* Payload bytes of the model: one without and one with the top bit set, so a
\* payload byte can be mistaken for a piece of a length prefix.
PayloadBytes == {1, 129}

\* Python integers are unbounded. Every length at or above Saturation is
\* represented by Saturation: it exceeds every buffer the model can hold, so
\* `offset + varint > len(self.buffer)` is decided as for the true value.
Saturation == 2^21

Min(a, b) == IF a <= b THEN a ELSE b

\* (current & 0x7F) << i, for i a multiple of 7
ShiftLeft7(current, i) ==
    LET d == current % 128
    IN IF d = 0 THEN 0
       ELSE IF i >= 21 THEN Saturation
       ELSE d * (2^i)

\* current & 0x80
ContinuationBit(current) == current >= 128

None == [kind |-> "none", bytes |-> <<>>]
Payload(bs) == [kind |-> "payload", bytes |-> bs]

\* The loop of __readVarInt from (offset, result, i); "none" when the buffer ends
\* before a byte without continuation bit.
RECURSIVE ReadVarIntFrom(_, _, _, _)
ReadVarIntFrom(buf, offset, result, i) ==
    IF offset >= Len(buf)
    THEN [found |-> FALSE, offset |-> 0, value |-> 0]
    ELSE LET current == buf[offset + 1]
             result2 == Min(Saturation, result + ShiftLeft7(current, i))
         IN IF ~ContinuationBit(current)
            THEN [found |-> TRUE, offset |-> offset + 1, value |-> result2]
            ELSE ReadVarIntFrom(buf, offset + 1, result2, i + 7)

readVarInt(buf) == ReadVarIntFrom(buf, 0, 0, 0)

\* A plausible slip: the prefix is consumed as soon as it is complete, also when
\* the payload is not yet there.
unshiftChunkEager(buf) ==
    LET v == readVarInt(buf)
    IN IF ~v.found
       THEN [ret |-> None, buffer |-> buf]
       ELSE IF v.offset + v.value > Len(buf)
       THEN [ret |-> None, buffer |-> SubSeq(buf, v.offset + 1, Len(buf))]
       ELSE [ret |-> Payload(SubSeq(buf, v.offset + 1, v.offset + v.value)),
             buffer |-> SubSeq(buf, v.offset + v.value + 1, Len(buf))]

\* A plausible slip: `>=` for `>` in the length test, so a frame that exactly
\* fills the buffer is held back.
unshiftChunkOffByOne(buf) ==
    LET v == readVarInt(buf)
    IN IF ~v.found
       THEN [ret |-> None, buffer |-> buf]
       ELSE IF v.offset + v.value >= Len(buf)
       THEN [ret |-> None, buffer |-> buf]
       ELSE [ret |-> Payload(SubSeq(buf, v.offset + 1, v.offset + v.value)),
             buffer |-> SubSeq(buf, v.offset + v.value + 1, Len(buf))]

\* unshiftChunk on a buffer: what it returns and the buffer it leaves.
unshiftChunk(buf) ==
    LET v == readVarInt(buf)
    IN IF ~v.found
       THEN [ret |-> None, buffer |-> buf]
       ELSE IF v.offset + v.value > Len(buf)
       THEN [ret |-> None, buffer |-> buf]
       ELSE [ret |-> Payload(SubSeq(buf, v.offset + 1, v.offset + v.value)),
             buffer |-> SubSeq(buf, v.offset + v.value + 1, Len(buf))]

\* addNewChunk
addNewChunk(buf, chunk) == buf \o chunk

-----------------------------------------------------------------------------
(* The byte streams a server sends.                                        *)

\* A length prefix for n < 128 with `pad` padding bytes: `pad` bytes carry the
\* continuation bit and the last byte is 0x00 (pad = 0: the canonical one byte).
Prefix(n, pad) ==
    IF pad = 0 THEN <<n>>
    ELSE <<128 + n>> \o [k \in 1..(pad - 1) |-> 128] \o <<0>>

Payloads == UNION {[1..k -> PayloadBytes] : k \in 0..MaxPayload}

Frame(p, pad) == Prefix(Len(p), pad) \o p

\* Frames with a one-byte or a two-byte length prefix.
Frames == {Frame(p, pad) : p \in Payloads, pad \in {0, 1}}

\* Frames whose prefix is 10 bytes (the widest 64-bit varint) or wider.
WideFrames == {Frame(p, pad) : p \in Payloads, pad \in {WidePad - 1, WidePad}}

RECURSIVE StreamsOf(_, _)
StreamsOf(frames, n) ==
    IF n = 0 THEN {<<>>}
    ELSE LET shorter == StreamsOf(frames, n - 1)
         IN shorter \cup {s \o f : s \in shorter, f \in frames}

ReaderStreams == StreamsOf(Frames, MaxFrames) \cup WideFrames

\* One addNewChunk of the whole of s, then unshiftChunk until it returns None:
\* the payloads returned, in order.
RECURSIVE ExtractAll(_)
ExtractAll(buf) ==
    LET r == unshiftChunk(buf)
    IN IF r.ret.kind = "payload" THEN <<r.ret.bytes>> \o ExtractAll(r.buffer)
       ELSE <<>>

-----------------------------------------------------------------------------
(* SpecReader: a caller of ProtobufStreamReader that receives the stream in *)
(* chunks of any sizes and may call addNewChunk and unshiftChunk in any     *)
(* order.                                                                   *)

NoError == [kind |-> "none", attempt |-> 0]

NoNext == -1
NoUri == -1
NoResult == [returned |-> FALSE, list |-> <<>>]
NoRaise == "none"

\* No view slice has been requested.
NoSlice == [es |-> <<>>, read |-> 0]

BackIdle ==
    /\ bpc = "idle" /\ bserver = "none"
    /\ b_is_first_time = TRUE /\ b_ready_for_next = NoNext /\ backward_api_uri = NoUri
    /\ comments = <<>> /\ viewReqs = <<>> /\ walkGets = <<>> /\ served = <<>>
    /\ sliceNexts = <<>> /\ lastSlice = NoSlice
    /\ bresult = NoResult /\ berr = NoRaise

ReaderIdle ==
    /\ stream = <<>> /\ pos = 0 /\ buffer = <<>> /\ out = <<>>
    /\ fpc = "idle" /\ attempt = 0 /\ fetchLog = <<>>
    /\ lastOp = "none" /\ lastRet = None /\ bufBefore = <<>> /\ lastChunk = <<>>
    /\ fetchErr = NoError

\* A task that does not exist (yet).
NoTask == [pc |-> "none", at |-> [kind |-> "none", at |-> 0],
           retry_count |-> 0, attempt |-> 0, pos |-> 0]

\* The place of a comment where there is none.
NoComment == [id |-> 0, at |-> [second |-> 0, microsecond |-> 0]]

\* No task of comment_queue.get() exists. Such a task is "pending" until it
\* has taken a comment off the queue, then "done" with the comment as its
\* result, and "yielded" once the main loop has yielded the result.
NoGet == [state |-> "none", result |-> NoComment]

\* No instance has been left. `tasks` are the workers of the instance that
\* was left, `active` its active_segments, `driver` its view driver, `monitor`
\* the state of its program_info_task and `instance` its number, `why` how the
\* consumer left it ("signal", "close" or "cancel"), `pending` whether its
\* `finally` is still to run or running, `is_first_time`, `ready_for_next`,
\* `queue` and `get` the variables of that name, the queue and the queue-get
\* task it was left with; `unbegun` are the workers that had not taken their
\* first step when they were cancelled, `cancelled` the workers its `finally`
\* cancelled; `cancelling` holds from the cancel() calls of the `finally` to
\* the return of its gather, `must_cancel` and `mon_cancel` while the view
\* driver and the monitor have a CancelledError to receive at their next step.
NoPrior ==
    [tasks |-> <<>>, pending |-> FALSE, active |-> <<>>, unbegun |-> {},
     cancelled |-> {}, driver |-> NoTask, instance |-> 0,
     is_first_time |-> TRUE, ready_for_next |-> NoNext,
     queue |-> <<>>, get |-> NoGet, monitor |-> "none", why |-> "none",
     cancelling |-> FALSE, must_cancel |-> FALSE, mon_cancel |-> FALSE]

\* An environment that does nothing: `faults` is how many requests it fails
\* at most, `ends` whether the program of an lv handle ends while it is
\* streamed, `logins` whether login() is called on the client meanwhile,
\* `leaves` whether the consumer leaves the stream or is cancelled.
NoEnv == [faults |-> 0, ends |-> FALSE, logins |-> FALSE, leaves |-> FALSE]

LiveIdle ==
    /\ lpc = "idle" /\ instance = 0 /\ jikkyo_channel_id = FALSE
    /\ is_first_time = TRUE /\ ready_for_next = NoNext
    /\ chunked_entries_task = NoTask /\ active_segments = <<>>
    /\ comment_queue = <<>> /\ program_info_task = [state |-> "none"]
    /\ queue_get = NoGet /\ done = {}
    /\ yielded = <<>> /\ faults = 0 /\ liveErr = NoRaise
    /\ is_logged_in = FALSE /\ lserver = "none" /\ lenv = NoEnv
    /\ segment_tasks = <<>> /\ prior = NoPrior
    /\ resolved = <<>> /\ polledEnded = FALSE /\ opened = {}
    /\ segment_gets = <<>> /\ view_reqs = <<>> /\ started = <<>>
    /\ worker_failed = {} /\ puts = <<>>

\* No ProgramInfo yet; no live id read off a channel page.
NoProgramInfo == [status |-> "none", hasUrl |-> FALSE, program |-> 0, endTime |-> 0]
NoLv == 0

ResolveIdle ==
    /\ npc = "idle" /\ nicolive_id_is_ch = FALSE /\ n_is_logged_in = FALSE
    /\ logged_in_read = "unread" /\ login_calls = 0
    /\ now = 0 /\ program_info = NoProgramInfo /\ first_program_info = NoProgramInfo
    /\ current_lv_id = NoLv /\ requests = <<>> /\ swallowed = FALSE
    /\ nerr = NoRaise

HandshakeIdle ==
    /\ wpc = "idle" /\ webSocketUrl = "" /\ ws_frames = <<>> /\ ws_read = 0
    /\ ws_log = <<>> /\ view_uri = NoUri /\ werr = NoRaise

MonitorIdle ==
    /\ mon_pc = "idle" /\ mon_jk = FALSE /\ mon_logged_in = FALSE
    /\ nicolive_program_info = [status |-> "none", hasUrl |-> FALSE, program |-> 0]
    /\ polls = <<>> /\ mon_result = "none" /\ stream_pc = "idle" /\ serr = NoRaise

LoopIdle ==
    /\ loop_pc = "idle" /\ loop_tasks = <<>> /\ loop_wait = {} /\ loop_done = {}
    /\ loop_queue = <<>> /\ loop_yielded = <<>> /\ loop_puts = 0

AdmitIdle ==
    /\ sent = <<>> /\ live_read = 0 /\ live_yielded = <<>>
    /\ packed_read = 0 /\ temp_comments = <<>>

ConstructIdle ==
    /\ cpc = "idle" /\ arg_nicolive_id = <<>> /\ nicolive_id = <<>>
    /\ self_jikkyo_channel_id = None /\ watched = <<>> /\ cerr = NoRaise

InitReader ==
    /\ BackIdle /\ LiveIdle /\ ConstructIdle /\ AdmitIdle /\ ResolveIdle /\ HandshakeIdle /\ MonitorIdle /\ LoopIdle
    /\ stream \in ReaderStreams
    /\ pos = 0 /\ buffer = <<>> /\ out = <<>>
    /\ fpc = "reader" /\ attempt = 0 /\ fetchLog = <<>>
    /\ lastOp = "none" /\ lastRet = None /\ bufBefore = <<>> /\ lastChunk = <<>>
    /\ fetchErr = NoError

\* reader.addNewChunk(chunk), chunk the next k bytes of the stream
ReaderAddNewChunk ==
    /\ UNCHANGED otherThanFetch
    /\ fpc = "reader"
    /\ \E k \in 1..(Len(stream) - pos) :
         LET chunk == SubSeq(stream, pos + 1, pos + k)
         IN /\ buffer' = addNewChunk(buffer, chunk)
            /\ pos' = pos + k
            /\ lastChunk' = chunk
    /\ lastOp' = "add"
    /\ bufBefore' = buffer
    /\ UNCHANGED <<stream, out, fpc, attempt, fetchLog, lastRet, fetchErr>>

\* message = reader.unshiftChunk()
ReaderUnshiftChunk ==
    /\ UNCHANGED otherThanFetch
    /\ fpc = "reader"
    /\ LET r == unshiftChunk(buffer)
       IN /\ buffer' = r.buffer
          /\ lastRet' = r.ret
          /\ out' = IF r.ret.kind = "payload" THEN Append(out, r.ret.bytes) ELSE out
    /\ lastOp' = "unshift"
    /\ bufBefore' = buffer
    /\ UNCHANGED <<stream, pos, fpc, attempt, fetchLog, lastChunk, fetchErr>>

NextReader == ReaderAddNewChunk \/ ReaderUnshiftChunk

SpecReader == InitReader /\ [][NextReader]_vars

-----------------------------------------------------------------------------
(* Properties of the frame reader (SpecReader).                            *)

\* The frame at the front of a buffer, read off the bytes directly: the prefix
\* is the bytes up to and including the first one without continuation bit.
HasCompletePrefix(b) == \E k \in 1..Len(b) : ~ContinuationBit(b[k])

PrefixLen(b) ==
    CHOOSE k \in 1..Len(b) :
        /\ ~ContinuationBit(b[k])
        /\ \A j \in 1..(k - 1) : ContinuationBit(b[j])

\* The little-endian base-128 value of a complete prefix.
RECURSIVE VarintValue(_)
VarintValue(p) ==
    IF p = <<>> THEN 0
    ELSE LET rest == VarintValue(Tail(p))
         IN (p[1] % 128) + (IF rest = 0 THEN 0 ELSE 128 * rest)

DeclaredLen(b) == VarintValue(SubSeq(b, 1, PrefixLen(b)))

\* The buffer holds no whole frame: it is empty, ends inside the prefix, or
\* holds fewer payload bytes than the prefix declares.
HoldsNoFrame(b) ==
    \/ ~HasCompletePrefix(b)
    \/ Len(b) - PrefixLen(b) < DeclaredLen(b)

\* C1: for a stream of complete frames cut into chunks in any way, once all of
\* it has been added and unshiftChunk has returned None, the payloads returned
\* are exactly those of one addNewChunk of the whole stream followed by
\* exhaustive extraction.
C1_ChunkingEquivalence ==
    (lastOp = "unshift" /\ lastRet.kind = "none" /\ pos = Len(stream))
        => out = ExtractAll(stream)

\* A two-frame stream whose last chunk was a single byte inside the last frame.
C1_Witness ==
    /\ lastOp = "unshift" /\ lastRet.kind = "none" /\ pos = Len(stream)
    /\ Len(out) = 2 /\ Len(out[2]) = 1
    /\ Len(lastChunk) = 1 /\ Len(stream) > 1

\* C2: unshiftChunk returns None and leaves the buffer as it was when the buffer
\* holds no whole frame; otherwise it returns the declared payload and removes
\* the prefix and the payload from the front, and nothing else.
C2_UnshiftFrameEffect ==
    lastOp = "unshift" =>
        IF HoldsNoFrame(bufBefore)
        THEN lastRet = None /\ buffer = bufBefore
        ELSE /\ lastRet.kind = "payload"
             /\ Len(lastRet.bytes) = DeclaredLen(bufBefore)
             /\ bufBefore =
                    SubSeq(bufBefore, 1, PrefixLen(bufBefore)) \o lastRet.bytes \o buffer

\* A payload was returned from a buffer that held more than that frame.
C2_Witness ==
    /\ lastOp = "unshift" /\ lastRet.kind = "payload"
    /\ Len(lastRet.bytes) = 1 /\ buffer # <<>>

\* A complete prefix declaring L >= 1 followed by exactly L - 1 payload bytes.
IsBoundary(b) ==
    /\ HasCompletePrefix(b)
    /\ DeclaredLen(b) >= 1
    /\ Len(b) = PrefixLen(b) + DeclaredLen(b) - 1

C3_NoneAtBoundary ==
    (lastOp = "unshift" /\ IsBoundary(bufBefore)) => lastRet = None

C3_NextByteCompletes ==
    (/\ lastOp = "add" /\ Len(lastChunk) = 1 /\ IsBoundary(bufBefore)
     /\ lastOp' = "unshift")
        => /\ lastRet'.kind = "payload"
           /\ Len(lastRet'.bytes) = DeclaredLen(bufBefore)
           /\ buffer = SubSeq(buffer, 1, PrefixLen(bufBefore)) \o lastRet'.bytes
           /\ buffer' = <<>>

\* C3: with a complete prefix declaring L and L - 1 payload bytes buffered,
\* unshiftChunk returns None; after one more byte is appended the next
\* unshiftChunk returns the whole L-byte payload.
C3_Boundary == []C3_NoneAtBoundary /\ [][C3_NextByteCompletes]_vars

\* The byte that completed a frame arrived alone and the frame was returned.
C3_Witness ==
    /\ lastOp = "unshift" /\ lastRet.kind = "payload"
    /\ Len(lastChunk) = 1 /\ Len(bufBefore) > 1
    /\ IsBoundary(SubSeq(bufBefore, 1, Len(bufBefore) - 1))
    /\ buffer = <<>>

\* C4 (as claimed): when each of the first 10 bytes of the buffer carries the
\* continuation bit, unshiftChunk fails with an error instead of returning None
\* or a payload.
C4_OverlongPrefixIsError ==
    (/\ lastOp = "unshift"
     /\ Len(bufBefore) >= 10
     /\ \A j \in 1..10 : ContinuationBit(bufBefore[j]))
        => lastRet.kind = "error"

-----------------------------------------------------------------------------
(* SpecFetch: fetchProtobufStream(uri, protobuf_class) with a consumer that *)
(* pulls until the generator ends or raises. The server sends the same body *)
(* for the URI on every GET; any attempt can end in a transport fault, when *)
(* the connection is opened or between two chunks of the body.              *)

max_retries == 5

\* The frames of a list of payloads, each with a one-byte prefix.
RECURSIVE Encode(_)
Encode(payloads) ==
    IF payloads = <<>> THEN <<>>
    ELSE Frame(Head(payloads), 0) \o Encode(Tail(payloads))

\* The response bodies of the fetcher's runs. A payload that ends in a byte with
\* the continuation bit set is a truncated protobuf message.
FetchBodies ==
    {Encode(ps) : ps \in {<<>>, << <<1>> >>, << <<1>>, <<1, 1>> >>, << <<1>>, <<129>> >>}}

\* protobuf.ParseFromString(message): a message cut off inside a varint does not
\* parse (google.protobuf.message.DecodeError, which is no httpx error).
ParsesFromString(message) ==
    message = <<>> \/ ~ContinuationBit(message[Len(message)])

InitFetch ==
    /\ BackIdle /\ LiveIdle /\ ConstructIdle /\ AdmitIdle /\ ResolveIdle /\ HandshakeIdle /\ MonitorIdle /\ LoopIdle
    /\ stream \in FetchBodies
    /\ pos = 0 /\ buffer = <<>> /\ out = <<>>
    /\ fpc = "get" /\ attempt = 0 /\ fetchLog = <<>>
    /\ lastOp = "none" /\ lastRet = None /\ bufBefore = <<>> /\ lastChunk = <<>>
    /\ fetchErr = NoError

\* A plausible slip: `attempt < max_retries`, one retry too many.
HasRetryLeftOffByOne(a) == a < max_retries

\* `if attempt < max_retries - 1`
HasRetryLeft(a) == a < max_retries - 1

\* except (httpx.HTTPError, httpx.StreamError): wait and go round the loop, or
\* re-raise on the last attempt. `log` is the history up to the fault.
FetchExcept(log) ==
    IF HasRetryLeft(attempt)
    THEN /\ fpc' = "sleep"
         /\ fetchLog' = log \o <<"FAULT", "SLEEP">>
         /\ fetchErr' = fetchErr
    ELSE /\ fpc' = "raised"
         /\ fetchLog' = Append(log, "FAULT")
         /\ fetchErr' = [kind |-> "transport", attempt |-> attempt]

\* A plausible slip: one reader for the whole call, made before the loop.
protobuf_readerKept(previous) == previous

\* `protobuf_reader = ProtobufStreamReader()` inside the `for`: the buffer of
\* the attempt's reader, whatever the reader of the attempt before was left with.
protobuf_reader(previous) == <<>>

\* A fresh reader, the GET is sent and answered 2xx.
FetchOpen ==
    /\ UNCHANGED otherThanFetch
    /\ fpc = "get"
    /\ buffer' = protobuf_reader(buffer) /\ pos' = 0
    /\ fetchLog' = Append(fetchLog, "GET")
    /\ fpc' = "body"
    /\ UNCHANGED <<stream, out, attempt, lastOp, lastRet, bufBefore, lastChunk, fetchErr>>

\* A fresh reader, the GET is sent and fails: no connection, or a non-2xx status
\* at raise_for_status().
FetchOpenFault ==
    /\ UNCHANGED otherThanFetch
    /\ fpc = "get"
    /\ buffer' = protobuf_reader(buffer) /\ pos' = 0
    /\ FetchExcept(Append(fetchLog, "GET"))
    /\ UNCHANGED <<stream, out, attempt, lastOp, lastRet, bufBefore, lastChunk>>

\* response.aiter_bytes() yields the next chunk: addNewChunk(chunk).
FetchChunk ==
    /\ UNCHANGED otherThanFetch
    /\ fpc = "body"
    /\ \E k \in 1..(Len(stream) - pos) :
         LET chunk == SubSeq(stream, pos + 1, pos + k)
         IN /\ buffer' = addNewChunk(buffer, chunk)
            /\ pos' = pos + k
            /\ lastChunk' = chunk
    /\ lastOp' = "add"
    /\ bufBefore' = buffer
    /\ fpc' = "drain"
    /\ UNCHANGED <<stream, out, attempt, fetchLog, lastRet, fetchErr>>

\* One round of the inner `while True`: unshiftChunk, and for a message
\* ParseFromString and yield.
FetchUnshift ==
    /\ UNCHANGED otherThanFetch
    /\ fpc = "drain"
    /\ LET r == unshiftChunk(buffer)
       IN /\ buffer' = r.buffer
          /\ lastRet' = r.ret
          /\ IF r.ret.kind # "payload"
             THEN fpc' = "body" /\ out' = out /\ fetchErr' = fetchErr
             ELSE IF ParsesFromString(r.ret.bytes)
             THEN fpc' = "drain" /\ out' = Append(out, r.ret.bytes) /\ fetchErr' = fetchErr
             ELSE /\ fpc' = "raised" /\ out' = out
                  /\ fetchErr' = [kind |-> "decode", attempt |-> attempt]
    /\ lastOp' = "unshift"
    /\ bufBefore' = buffer
    /\ UNCHANGED <<stream, pos, attempt, fetchLog, lastChunk>>

\* aiter_bytes() raises between two chunks (socket error, read-idle timeout).
FetchBodyFault ==
    /\ UNCHANGED otherThanFetch
    /\ fpc = "body"
    /\ FetchExcept(fetchLog)
    /\ UNCHANGED <<stream, pos, buffer, out, attempt, lastOp, lastRet, bufBefore, lastChunk>>

\* The body ends normally: `break`.
FetchBodyEnd ==
    /\ UNCHANGED otherThanFetch
    /\ fpc = "body" /\ pos = Len(stream)
    /\ fpc' = "done"
    /\ fetchLog' = Append(fetchLog, "END")
    /\ UNCHANGED <<stream, pos, buffer, out, attempt, lastOp, lastRet, bufBefore,
                   lastChunk, fetchErr>>

\* asyncio.sleep(retry_delay) is over: the next value of `attempt`.
FetchRetry ==
    /\ UNCHANGED otherThanFetch
    /\ fpc = "sleep"
    /\ attempt' = attempt + 1
    /\ fpc' = "get"
    /\ UNCHANGED <<stream, pos, buffer, out, fetchLog, lastOp, lastRet, bufBefore,
                   lastChunk, fetchErr>>

NextFetch ==
    \/ FetchOpen \/ FetchOpenFault \/ FetchChunk \/ FetchUnshift
    \/ FetchBodyFault \/ FetchBodyEnd \/ FetchRetry

SpecFetch == InitFetch /\ [][NextFetch]_vars

-----------------------------------------------------------------------------
(* Properties of the fetcher (SpecFetch).                                  *)

CountOf(log, what) == Cardinality({i \in 1..Len(log) : log[i] = what})

\* The GETs among the first i events.
GetsUpTo(log, i) == Cardinality({j \in 1..i : log[j] = "GET"})

\* C5: every GET but the first follows a wait and every wait follows a fault;
\* a fault of one of the first four attempts is followed by a wait, the fault of
\* the fifth attempt ends the run with that fault raised, so a run of faults
\* makes exactly 5 GETs; a body that ends normally ends the run without error
\* and nothing follows it.
C5_FiveAttempts ==
    /\ CountOf(fetchLog, "GET") <= 5
    /\ \A i \in 1..Len(fetchLog) :
         /\ fetchLog[i] = "GET" => (i = 1 \/ fetchLog[i - 1] = "SLEEP")
         /\ fetchLog[i] = "SLEEP" => (i > 1 /\ fetchLog[i - 1] = "FAULT")
         /\ fetchLog[i] = "END" => (i = Len(fetchLog) /\ fpc = "done")
         /\ fetchLog[i] = "FAULT" =>
              IF GetsUpTo(fetchLog, i) = 5
              THEN i = Len(fetchLog) /\ fpc = "raised"
                   /\ fetchErr = [kind |-> "transport", attempt |-> 4]
              ELSE i < Len(fetchLog) /\ fetchLog[i + 1] = "SLEEP"
    /\ (fpc = "raised" /\ fetchErr.kind = "transport") =>
         /\ CountOf(fetchLog, "GET") = 5
         /\ CountOf(fetchLog, "SLEEP") = 4
         /\ CountOf(fetchLog, "END") = 0
    /\ fpc = "done" =>
         /\ fetchErr = NoError
         /\ fetchLog[Len(fetchLog)] = "END"
         /\ CountOf(fetchLog, "GET") = CountOf(fetchLog, "FAULT") + 1

\* Five attempts failed, one of them part-way through the body, and the fault
\* was raised.
C5_Witness ==
    /\ fpc = "raised" /\ fetchErr.kind = "transport"
    /\ CountOf(fetchLog, "GET") = 5
    /\ out # <<>>

-----------------------------------------------------------------------------
(* SpecBackward: downloadBackwardComments.                                  *)
(* URIs of the Backward API are numbers: 0 is the empty string, the Backward *)
(* entry of the view stream names URI 1, and the packed segment at URI u     *)
(* names u + 1 as its `next`.                                                *)

\* meta.id of a ChunkedMessage whose meta carries no id: ids are numbers
\* here and this one stands for the empty string.
EmptyId == 0

\* ChunkedMessage: which fields are set (HasField), meta.id and meta.at.
Message(id, seconds, nanos, shape) ==
    [ id |-> id,
      at |-> [seconds |-> seconds, nanos |-> nanos],
      hasMeta |-> shape # "nometa",
      hasMessage |-> shape # "nomessage",
      hasChat |-> shape \in {"chat", "nomodifier", "nometa"},
      hasOverflowed |-> shape = "overflowed",
      chatModifier |-> shape \in {"chat", "nometa"},
      overflowedModifier |-> shape = "overflowed" ]

\* The packed segments a server may answer with. PackedSegment.messages comes
\* sorted by at from the real server; the last batch but one is one that is
\* not, and the last holds a chat whose meta.id is empty.
ServedBatches ==
    { <<>>,
      << Message(1, 100, 1400, "chat") >>,
      << Message(1, 100, 400, "chat"), Message(2, 100, 400, "nomodifier"),
         Message(3, 100, 600, "chat") >>,
      << Message(1, 100, 600, "chat"), Message(2, 100, 1400, "overflowed") >>,
      << Message(1, 100, 400, "control"), Message(2, 100, 400, "nometa"),
         Message(3, 100, 400, "nomessage") >>,
      << Message(1, 100, 1400, "chat"), Message(2, 100, 400, "chat") >>,
      << Message(EmptyId, 100, 400, "chat") >> }

\* The back-download scenario of the specification: 10 messages at 100..109 s,
\* then 10 at 90..99 s, then 5 at 85..89 s, the last without `next`.
ScenarioBatch(k) ==
    IF k = 1 THEN [i \in 1..10 |-> Message(99 + i, 99 + i, 0, "chat")]
    ELSE IF k = 2 THEN [i \in 1..10 |-> Message(89 + i, 89 + i, 0, "chat")]
    ELSE [i \in 1..5 |-> Message(84 + i, 84 + i, 0, "chat")]

\* What the server may answer to the k-th Backward GET, sent to URI u.
Responses(server, k, u) ==
    IF server = "scenario"
    THEN {[messages |-> ScenarioBatch(k), next |-> IF k < 3 THEN u + 1 ELSE NoUri]}
    ELSE {[messages |-> b, next |-> n] :
            b \in ServedBatches,
            n \in (IF k < MaxSegs THEN {NoUri, u + 1} ELSE {NoUri})}

\* A plausible slip: the modifier test is left out.
IsSkippedIgnoresModifier(m) ==
    \/ ~m.hasMeta \/ ~m.hasMessage
    \/ (~m.hasChat /\ ~m.hasOverflowed)

\* The skips of the loop over packed_segment.messages: no meta or no message;
\* neither chat nor overflowed_chat; the chosen chat has no modifier.
IsSkipped(m) ==
    \/ ~m.hasMeta \/ ~m.hasMessage
    \/ (~m.hasChat /\ ~m.hasOverflowed)
    \/ ~(IF m.hasChat THEN m.chatModifier ELSE m.overflowedModifier)

\* 5^9: 1e9 is 2^9 * 5^9.
FiveToNine == 1953125

RECURSIVE Log2Floor(_)
Log2Floor(x) == IF x < 2 THEN 0 ELSE 1 + Log2Floor(x \div 2)

\* 2^d, and 2^d held at `cap` once it has reached it.
RECURSIVE Pow2(_)
Pow2(d) == IF d = 0 THEN 1 ELSE 2 * Pow2(d - 1)

RECURSIVE Pow2Cap(_, _)
Pow2Cap(d, cap) ==
    IF d = 0 THEN 1
    ELSE LET h == Pow2Cap(d - 1, cap) IN IF 2 * h >= cap THEN cap ELSE 2 * h

Abs(x) == IF x < 0 THEN 0 - x ELSE x

\* Long division of x * 2^times by 5^9, one doubling at a time: the parity of
\* the quotient and the remainder.
RECURSIVE LongDouble(_, _, _)
LongDouble(parity, rem, times) ==
    IF times = 0 THEN [parity |-> parity, rem |-> rem]
    ELSE IF 2 * rem >= FiveToNine
         THEN LongDouble(1, 2 * rem - FiveToNine, times - 1)
         ELSE LongDouble(0, 2 * rem, times - 1)

TimesPowerOfTwo(x, times) ==
    LongDouble((x \div FiveToNine) % 2, x % FiveToNine, times)

\* The binary exponent of the double nanos / 1e9: the j for which
\* 2^52 <= nanos * 2^j / 1e9 < 2^53.
RECURSIVE MantissaShift(_, _)
MantissaShift(x, j) == IF x >= 1000000000 THEN j ELSE MantissaShift(2 * x, j + 1)

\* The double v = (1000 q + r) / 1000 - rho / (125 * 2^(k - 6)) is the fraction
\* of the timestamp times 1e6: it is rounded to a double by the multiplication
\* and then half-even to an integer (_PyTime_ROUND_HALF_EVEN).
MicrosOfDouble(q, r, k, rho) ==
    IF r # 500 /\ k - 9 >= 21 THEN (IF r > 500 THEN q + 1 ELSE q)
    ELSE LET D == IF k - 9 <= 20 THEN (r - 500) * Pow2(k - 9) - rho ELSE 0 - rho
             \* whether the product rounds to the double q + 1/2
             x == IF q = 0 THEN (IF D < 0 THEN 55 ELSE 54) - k + 6
                  ELSE 59 - k - Log2Floor(q)
             tie == \/ D = 0
                    \/ (x >= 0 /\ Abs(D) * Pow2Cap(x, 126) <= 125)
                    \/ (x < 0 /\ Abs(D) <= 125 * Pow2Cap(0 - x, 4194304))
         IN IF tie THEN (IF q % 2 = 0 THEN q ELSE q + 1)
            ELSE IF D > 0 THEN q + 1 ELSE q

\* The microseconds (0 .. 1000000) datetime.fromtimestamp gives to the double
\* seconds + nanos / 1e9, for 0 <= seconds < 2^31 and 0 <= nanos < 1e9.
\* nanos / 1e9 is rounded to a double (53 bits), the sum is rounded to a double
\* (52 - Log2Floor(seconds) bits after the point), its fraction is multiplied by
\* 1e6 in doubles and that product is rounded half-even: the result depends on
\* seconds and is not the half-even rounding of nanos / 1000.
RoundToMicros(seconds, nanos) ==
    IF nanos = 0 THEN 0
    ELSE
    LET q == nanos \div 1000
        r == nanos % 1000
        j == MantissaShift(nanos, 52)
        f1 == TimesPowerOfTwo(nanos, j - 9).rem
        rho1 == IF 2 * f1 < FiveToNine THEN f1 ELSE f1 - FiveToNine
    IN IF seconds = 0 THEN MicrosOfDouble(q, r, j, rho1)
       ELSE LET k == 52 - Log2Floor(seconds)
                y == TimesPowerOfTwo(nanos, k - 9)
                a == 2 * y.rem - FiveToNine
                up == IF Pow2Cap(j - k, 2 * FiveToNine)
                          >= (2 * FiveToNine + Abs(a) - 1) \div Abs(a)
                      THEN (IF a > 0 THEN 1 ELSE 0)
                      ELSE LET val == a * Pow2(j - k) - 2 * rho1
                           IN IF val > 0 THEN 1
                              ELSE IF val < 0 THEN 0
                              ELSE y.parity
            IN MicrosOfDouble(q, r, k, y.rem - up * FiveToNine)

\* datetime.fromtimestamp(seconds + nanos / 1e9): the datetime as seconds since
\* the epoch and microsecond. The datetime keeps microseconds, so distinct
\* timestamps can convert to the same datetime. (The local UTC offset is taken
\* as fixed.)
FromTimestamp(at) ==
    LET us == RoundToMicros(at.seconds, at.nanos)
    IN IF us = 1000000 THEN [second |-> at.seconds + 1, microsecond |-> 0]
       ELSE [second |-> at.seconds, microsecond |-> us]

\* The order of datetimes.
DatetimeLt(a, b) ==
    a.second < b.second \/ (a.second = b.second /\ a.microsecond < b.microsecond)

DatetimeLeq(a, b) == a = b \/ DatetimeLt(a, b)

\* convertToNDGRComment: the id and at of the NDGRComment, or the
\* AssertionError of its asserts: message is set, chat or overflowed_chat is
\* set, and the chosen one (chat when set) has a modifier.
convertToNDGRComment(m) ==
    IF /\ m.hasMessage
       /\ (m.hasChat \/ m.hasOverflowed)
       /\ (IF m.hasChat THEN m.chatModifier ELSE m.overflowedModifier)
    THEN [id |-> m.id, at |-> FromTimestamp(m.at)]
    ELSE [raised |-> "AssertionError"]

\* temp_comments of one packed segment.
RECURSIVE TempComments(_)
TempComments(messages) ==
    IF messages = <<>> THEN <<>>
    ELSE IF IsSkipped(Head(messages)) THEN TempComments(Tail(messages))
    ELSE <<convertToNDGRComment(Head(messages))>> \o TempComments(Tail(messages))

\* A plausible slip: the batch is appended to the accumulator.
PrependAppends(temp, acc) == acc \o temp

\* comments = temp_comments + comments
Prepend(temp, acc) == temp \o acc

\* A plausible slip: the status of the response is never looked at.
RaisesForStatusNever(status) == FALSE

\* response.raise_for_status()
RaisesForStatus(status) == status # "2xx"

\* A plausible slip: the walk goes on from the URI it has just fetched.
NextUriStale(segment, uri) == uri

\* backward_api_uri = packed_segment.next.uri
NextUri(segment, uri) == segment.next

\* ChunkedEntry of a view slice.
ViewEntries ==
    {[kind |-> "segment", at |-> 0, uri |-> 0], [kind |-> "other", at |-> 0, uri |-> 0]}
    \cup {[kind |-> "next", at |-> a, uri |-> 0] : a \in {1700000100, 1700000132}}
    \cup {[kind |-> "backward", at |-> 0, uri |-> u] : u \in {0, 1}}

EntrySeqs == UNION {[1..k -> ViewEntries] : k \in 0..MaxEntries}

AtNow == [kind |-> "now", at |-> 0]
AtNone == [kind |-> "none", at |-> 0]
AtOf(next) == [kind |-> "at", at |-> next]

\* process_chunked_entries over the entries the slice delivers: the
\* ready_for_next it leaves, the Backward URI it returns, the error it raises.
RECURSIVE ProcessEntries(_, _)
ProcessEntries(es, rfn) ==
    IF es = <<>> THEN [rfn |-> rfn, uri |-> NoUri, err |-> NoRaise]
    ELSE LET e == Head(es)
         IN IF e.kind = "next"
            THEN IF rfn # NoNext
                 THEN [rfn |-> rfn, uri |-> NoUri, err |-> "Duplicated ReadyForNext"]
                 ELSE ProcessEntries(Tail(es), e.at)
            ELSE IF e.kind = "backward"
            THEN [rfn |-> rfn, uri |-> e.uri, err |-> NoRaise]
            ELSE ProcessEntries(Tail(es), rfn)

\* How many entries of the slice process_chunked_entries is handed before it
\* returns or raises.
RECURSIVE EntriesRead(_, _)
EntriesRead(es, rfn) ==
    IF es = <<>> THEN 0
    ELSE LET e == Head(es)
         IN IF e.kind = "next"
            THEN IF rfn # NoNext THEN 1 ELSE 1 + EntriesRead(Tail(es), e.at)
            ELSE IF e.kind = "backward" THEN 1
            ELSE 1 + EntriesRead(Tail(es), rfn)

\* How many Next entries process_chunked_entries is handed before it returns
\* or raises: the entries after a Backward are not read, and neither are
\* those after the Next that fails the assertion.
RECURSIVE NextsYielded(_, _)
NextsYielded(es, rfn) ==
    IF es = <<>> THEN 0
    ELSE LET e == Head(es)
         IN IF e.kind = "next"
            THEN IF rfn # NoNext THEN 1 ELSE 1 + NextsYielded(Tail(es), e.at)
            ELSE IF e.kind = "backward" THEN 0
            ELSE NextsYielded(Tail(es), rfn)

InitBackward ==
    /\ ReaderIdle /\ LiveIdle /\ ConstructIdle /\ AdmitIdle /\ ResolveIdle /\ HandshakeIdle /\ MonitorIdle /\ LoopIdle
    /\ bpc = "start" /\ bserver \in {"any", "scenario"}
    /\ b_is_first_time = TRUE /\ b_ready_for_next = NoNext /\ backward_api_uri = NoUri
    /\ comments = <<>> /\ viewReqs = <<>> /\ walkGets = <<>> /\ served = <<>>
    /\ sliceNexts = <<>> /\ lastSlice = NoSlice
    /\ bresult = NoResult /\ berr = NoRaise

\* fetchNicoLiveProgramInfo and fetchNDGRViewURI: a view URI, or an exception.
BackStart ==
    /\ UNCHANGED otherThanBackward
    /\ bpc = "start"
    /\ \E ok \in BOOLEAN :
         IF ok THEN bpc' = "view" /\ berr' = berr
         ELSE bpc' = "raised" /\ berr' = "resolve"
    /\ UNCHANGED <<bserver, b_is_first_time, b_ready_for_next, backward_api_uri,
                   comments, viewReqs, sliceNexts, lastSlice, walkGets, served,
                   bresult>>

\* One round of the first `while True`: the slice is requested, its entries are
\* processed, and the round ends with the Backward URI, an exception or neither.
BackViewSlice ==
    /\ UNCHANGED otherThanBackward
    /\ bpc = "view" /\ Len(viewReqs) < MaxSlices
    /\ LET at == IF b_ready_for_next # NoNext THEN AtOf(b_ready_for_next)
                 ELSE IF b_is_first_time THEN AtNow
                 ELSE AtNone
       IN /\ viewReqs' = Append(viewReqs, at)
          /\ b_is_first_time' = IF at = AtNow THEN FALSE ELSE b_is_first_time
    /\ \E es \in EntrySeqs, ending \in {"end", "raise"} :
         LET r == ProcessEntries(es, b_ready_for_next)
             err == IF r.err # NoRaise THEN r.err
                    ELSE IF r.uri = NoUri /\ ending = "raise" THEN "transport"
                    ELSE NoRaise
         IN /\ b_ready_for_next' = r.rfn
            /\ sliceNexts' = Append(sliceNexts, NextsYielded(es, b_ready_for_next))
            /\ lastSlice' = [es |-> es, read |-> EntriesRead(es, b_ready_for_next)]
            /\ IF err # NoRaise
               THEN /\ bpc' = "raised" /\ berr' = err
                    /\ UNCHANGED <<backward_api_uri, bresult>>
               ELSE IF r.uri = NoUri
               THEN /\ bpc' = "view"
                    /\ UNCHANGED <<backward_api_uri, bresult, berr>>
               ELSE /\ backward_api_uri' = r.uri
                    /\ berr' = berr
                    /\ IF r.uri = 0
                       THEN bpc' = "done" /\ bresult' = [returned |-> TRUE, list |-> <<>>]
                       ELSE bpc' = "walk" /\ bresult' = bresult
    /\ UNCHANGED <<bserver, comments, walkGets, served>>

\* One round of the second `while True`: GET the URI, raise on a failure, else
\* prepend the batch and go on to `next` (after the 0.01 s pause) or return.
BackWalkGet ==
    /\ UNCHANGED otherThanBackward
    /\ bpc = "walk"
    /\ walkGets' = Append(walkGets, backward_api_uri)
    /\ \E status \in {"2xx", "403", "transport"} :
         IF status = "transport" \/ RaisesForStatus(status)
         THEN /\ served' = Append(served, [status |-> status, messages |-> <<>>, next |-> NoUri])
              /\ bpc' = "raised" /\ berr' = status
              /\ UNCHANGED <<comments, backward_api_uri, bresult>>
         ELSE \E packed_segment \in Responses(bserver, Len(walkGets) + 1, backward_api_uri) :
              /\ served' = Append(served, [status |-> status,
                                           messages |-> packed_segment.messages,
                                           next |-> packed_segment.next])
              /\ comments' = Prepend(TempComments(packed_segment.messages), comments)
              /\ berr' = berr
              /\ IF packed_segment.next # NoUri
                 THEN /\ backward_api_uri' = NextUri(packed_segment, backward_api_uri)
                      /\ bpc' = "walk" /\ bresult' = bresult
                 ELSE /\ backward_api_uri' = backward_api_uri
                      /\ bpc' = "done"
                      /\ bresult' = [returned |-> TRUE, list |-> comments']
    /\ UNCHANGED <<bserver, b_is_first_time, b_ready_for_next, viewReqs, sliceNexts,
                   lastSlice>>

NextBackward == BackStart \/ BackViewSlice \/ BackWalkGet

SpecBackward == InitBackward /\ [][NextBackward]_vars

-----------------------------------------------------------------------------
(* Properties of the backward walk (SpecBackward).                         *)

\* a is no later than b, on the server's (seconds, nanos).
AtLeq(a, b) == a.seconds < b.seconds \/ (a.seconds = b.seconds /\ a.nanos <= b.nanos)

\* The messages of a packed segment are in non-decreasing at order.
BatchSorted(ms) == \A i \in 1..Len(ms), j \in 1..Len(ms) : i < j => AtLeq(ms[i].at, ms[j].at)

\* Every message of the later-fetched batch is no later than every message of
\* the earlier-fetched one.
BatchNoLater(later, earlier) ==
    \A i \in 1..Len(later), j \in 1..Len(earlier) : AtLeq(later[i].at, earlier[j].at)

NonDecreasing(list) ==
    \A i \in 1..(Len(list) - 1) : DatetimeLeq(list[i].at, list[i + 1].at)

Returned == bpc = "done" /\ bresult.returned /\ walkGets # <<>>

\* C7 (as claimed): if every packed segment is sorted and every segment is no
\* later than the segment that pointed to it, the returned list is
\* non-decreasing in at.
C7_OrderedGivenAdjacentOrder ==
    (/\ Returned
     /\ \A i \in 1..Len(served) : BatchSorted(served[i].messages)
     /\ \A i \in 2..Len(served) :
            BatchNoLater(served[i].messages, served[i - 1].messages))
        => NonDecreasing(bresult.list)

\* C7 (amended): if every packed segment is sorted and every segment is no
\* later than every segment fetched before it in the walk, the returned list is
\* non-decreasing in at.
C7_OrderedGivenChainOrder ==
    (/\ Returned
     /\ \A i \in 1..Len(served) : BatchSorted(served[i].messages)
     /\ \A i \in 1..Len(served), j \in 1..Len(served) :
            i < j => BatchNoLater(served[j].messages, served[i].messages))
        => NonDecreasing(bresult.list)

\* Two ordered segments were walked and four comments returned, two of them
\* with the same datetime.
C7_Witness ==
    /\ Returned /\ Len(served) = 2
    /\ \A i \in 1..Len(served) : BatchSorted(served[i].messages)
    /\ BatchNoLater(served[2].messages, served[1].messages)
    /\ Len(bresult.list) = 4
    /\ DatetimeLt(bresult.list[1].at, bresult.list[2].at)
    /\ bresult.list[3].at = bresult.list[4].at

\* Admissible, as the contract words it: meta and message are set, chat or
\* overflowed_chat is set, and the chosen one (chat when set) has a modifier.
IsAdmittedByContract(m) ==
    /\ m.hasMeta /\ m.hasMessage
    /\ (m.hasChat \/ m.hasOverflowed)
    /\ (m.hasChat => m.chatModifier)
    /\ (~m.hasChat => m.overflowedModifier)

\* adm(B): the comments of B's admissible messages, in server order.
Adm(messages) ==
    LET sel == SelectSeq(messages, IsAdmittedByContract)
    IN [i \in 1..Len(sel) |-> convertToNDGRComment(sel[i])]

\* adm(Bn) ++ ... ++ adm(B1) for the first n answers.
RECURSIVE ChainList(_, _)
ChainList(answers, n) ==
    IF n = 0 THEN <<>> ELSE Adm(answers[n].messages) \o ChainList(answers, n - 1)

\* C8: the returned list is adm(Bn) ++ ... ++ adm(B1) for the chain B1 -> ... ->
\* Bn that was walked; for the batches of 10, 10 and 5 messages it has 25
\* comments, at 85 s .. 109 s.
C8_ListIsChainReversed ==
    Returned =>
        /\ bresult.list = ChainList(served, Len(served))
        /\ bserver = "scenario" =>
             /\ Len(bresult.list) = 25
             /\ \A i \in 1..25 : bresult.list[i].at = [second |-> 84 + i, microsecond |-> 0]

C8_Witness ==
    /\ Returned /\ bserver = "scenario"
    /\ Len(served) = 3 /\ Len(bresult.list) = 25

\* C9: the first GET goes to the Backward URI and every further GET to the
\* `next` of the segment fetched just before, which was answered 2xx and carried
\* one; the walk goes on exactly while the segment just fetched carries a
\* `next`, and returns after the first segment without one: n GETs for a chain
\* of n segments, none fetched twice.
C9_OneGetPerSegment ==
    /\ Len(served) = Len(walkGets)
    /\ \A i \in 1..Len(walkGets) :
         IF i = 1 THEN walkGets[i] = 1
         ELSE /\ served[i - 1].status = "2xx"
              /\ served[i - 1].next # NoUri
              /\ walkGets[i] = served[i - 1].next
    /\ \A i \in 1..Len(walkGets), j \in 1..Len(walkGets) :
         i # j => walkGets[i] # walkGets[j]
    /\ (served # <<>> /\ served[Len(served)].status = "2xx") =>
         IF served[Len(served)].next # NoUri
         THEN bpc = "walk" /\ backward_api_uri = served[Len(served)].next
         ELSE Returned
    /\ Returned =>
         /\ \A i \in 1..Len(served) : served[i].status = "2xx"
         /\ \A i \in 1..(Len(served) - 1) : served[i].next # NoUri
         /\ served[Len(served)].next = NoUri

C9_Witness ==
    /\ Returned /\ Len(walkGets) = 3 /\ bserver = "any"

\* C10: a Backward GET that is answered with a failure is the last GET of the
\* run: that failure is raised, the URI was requested once, and no list is
\* returned, whatever the accumulator holds.
C10_FailureIsFatal ==
    \A i \in 1..Len(served) :
        served[i].status # "2xx" =>
            /\ i = Len(served)
            /\ bpc = "raised" /\ berr = served[i].status
            /\ bresult = NoResult
            /\ Cardinality({j \in 1..Len(walkGets) : walkGets[j] = walkGets[i]}) = 1

\* The second GET was answered 403 with comments of the first segment already
\* accumulated.
C10_Witness ==
    /\ bpc = "raised" /\ Len(served) = 2
    /\ served[2].status = "403"
    /\ comments # <<>> /\ bresult = NoResult

\* C11 (as claimed): once a view slice has closed normally with neither a
\* Backward nor a Next entry, no further view slice is requested and the
\* operation has returned the empty list.
C11_EndsWithoutNextOrBackward ==
    (/\ viewReqs # <<>> /\ berr = NoRaise
     /\ b_ready_for_next = NoNext /\ backward_api_uri = NoUri)
        => /\ Len(viewReqs) = 1
           /\ bpc = "done" /\ bresult = [returned |-> TRUE, list |-> <<>>]

-----------------------------------------------------------------------------
(* SpecLive: streamComments.                                               *)
(* The k-th program the handle resolves to has the segment URIs 2k-1 and   *)
(* 2k. Every comment id sits in exactly one segment stream, once. A GET of *)
(* a URI is answered with that URI's stream from its start, every time.    *)
(* A step is what one task does from one `await` that suspends it to the   *)
(* next: the generator of streamComments, the view driver, the monitor,    *)
(* each segment worker and each task of comment_queue.get() take theirs    *)
(* in any order. The requests of fetchNicoLiveProgramInfo before its test   *)
(* of is_logged_in are one step, and those after it another: the client's  *)
(* state is read at that test only.                                        *)

FirstSegment(k) == 2 * k - 1
SecondSegment(k) == 2 * k

\* The program whose segment streams hold comment id.
ProgramOf(id) == (id + 2) \div 3

\* The ChunkedMessages of the segment stream at URI u.
SegmentStream(u) ==
    IF u % 2 = 1
    THEN <<Message(3 * ((u + 1) \div 2) - 2, 100 + u, 0, "chat"),
           Message(3 * ((u + 1) \div 2) - 1, 100 + u, 500, "overflowed")>>
    ELSE <<Message(0, 100 + u, 0, "control"),
           Message(3 * (u \div 2), 100 + u, 0, "chat")>>

\* The program whose segment URI u is.
ProgramOfSegment(u) == (u + 1) \div 2

\* Every GET of segment URI u fails before a ChunkedMessage is read: on the
\* down server, for the first segment of a program.
SegmentBreaks(server, u) == server = "down" /\ u % 2 = 1

\* The ChunkedEntries the view stream of program k delivers to the n-th
\* invocation of the view fetch for the slice requested with `at`.
\* The down server announces both segments in one slice.
\* The plain server is the one of the specification's scenario: the first
\* segment and Next 1700000100, then the second segment and Next 1700000132,
\* then a slice without entries. The short server has the one slice that
\* announces the second segment; the corrupt server ends that slice with a
\* frame that does not parse as a ChunkedEntry. The flaky server sends a Next
\* and a frame that does not parse to the first invocation for at=now and
\* nothing to the later ones, and the second segment to the slice after it.
ViewSlice(server, k, at, n) ==
    IF server = "down"
    THEN IF at = AtNow
         THEN <<[kind |-> "segment", at |-> 0, uri |-> FirstSegment(k)],
                [kind |-> "segment", at |-> 0, uri |-> SecondSegment(k)]>>
         ELSE <<>>
    ELSE IF server = "plain"
    THEN IF at = AtNow
         THEN <<[kind |-> "segment", at |-> 0, uri |-> FirstSegment(k)],
                [kind |-> "next", at |-> 1700000100, uri |-> 0]>>
         ELSE IF at = AtOf(1700000100)
         THEN <<[kind |-> "segment", at |-> 0, uri |-> SecondSegment(k)],
                [kind |-> "next", at |-> 1700000132, uri |-> 0]>>
         ELSE <<>>
    ELSE IF server = "corrupt"
    THEN <<[kind |-> "segment", at |-> 0, uri |-> SecondSegment(k)],
           [kind |-> "malformed", at |-> 0, uri |-> 0]>>
    ELSE IF server = "flaky"
    THEN IF at = AtNow
         THEN IF n = 1
              THEN <<[kind |-> "next", at |-> 1700000100, uri |-> 0],
                     [kind |-> "malformed", at |-> 0, uri |-> 0]>>
              ELSE <<>>
         ELSE <<[kind |-> "segment", at |-> 0, uri |-> SecondSegment(k)]>>
    ELSE <<[kind |-> "segment", at |-> 0, uri |-> SecondSegment(k)]>>

\* What the watch page shows: program.status, whether site.relive.webSocketUrl
\* is non-empty, and which program it is.
WatchPages(programs) ==
    [status : {"ON_AIR", "ENDED"}, hasUrl : BOOLEAN, program : programs]

Resolved(page) == [raised |-> NoRaise, info |-> page]
NotResolved(err) ==
    [raised |-> err, info |-> [status |-> "none", hasUrl |-> FALSE, program |-> 0]]

\* What a request of the resolver raises when it is not answered: the httpx
\* call lets the transport's error through.
TransportError == "ConnectError"

\* The condition of the timeshift activation.
TimeshiftApplies(info, logged_in) ==
    info.status = "ENDED" /\ ~info.hasUrl /\ logged_in

\* fetchNicoLiveProgramInfo, from the parsed watch page on: an ENDED program
\* without a WebSocket URL makes a session that is logged in at the test
\* reserve the timeshift (POST), begin viewing (PATCH) and read the watch page
\* again.
fetchNicoLiveProgramInfo(page, logged_in, reserve, patch, refetchedHasUrl) ==
    IF TimeshiftApplies(page, logged_in)
    THEN IF reserve = TransportError THEN NotResolved(TransportError)
         ELSE IF reserve \notin {"200", "DUPLICATED"} THEN NotResolved("ValueError")
         ELSE IF patch = TransportError THEN NotResolved(TransportError)
         ELSE IF patch # "200" THEN NotResolved("ValueError")
         ELSE IF ~refetchedHasUrl THEN NotResolved("ValueError")
         ELSE Resolved([page EXCEPT !.hasUrl = TRUE])
    ELSE Resolved(page)

\* What the request for the watch page of one of the programs comes to: it
\* fails, or the page is parsed.
WatchPageReads(programs) ==
    {NotResolved("HTTPStatusError")} \cup {Resolved(page) : page \in WatchPages(programs)}

\* Every outcome of the timeshift activation for the ENDED page of `program`:
\* the call is suspended at the POST, at the PATCH and at the second request
\* for the watch page, and self.is_logged_in is not read again.
TimeshiftResolutions(program) ==
    {fetchNicoLiveProgramInfo([status |-> "ENDED", hasUrl |-> FALSE, program |-> program],
                              TRUE, reserve, patch, again) :
        reserve \in {"200", "DUPLICATED", "403", TransportError},
        patch \in {"200", "403", TransportError},
        again \in BOOLEAN}

\* A plausible slip: the modifier is looked for on chat only, so an
\* overflowed_chat passes without one.
IsIgnoredChatOnly(m) ==
    \/ ~m.hasMeta \/ ~m.hasMessage
    \/ (~m.hasChat /\ ~m.hasOverflowed)
    \/ (m.hasChat /\ ~m.chatModifier)

\* The `continue`s of fetchChunkedMessages.
IsIgnored(m) ==
    \/ ~m.hasMeta \/ ~m.hasMessage
    \/ (~m.hasChat /\ ~m.hasOverflowed)
    \/ (m.hasChat /\ ~m.chatModifier)
    \/ (~m.hasChat /\ ~m.overflowedModifier)

\* A plausible slip: the Next of the slice before is not used.
LiveAtNowAgain(rfn, first) == AtNow

\* The ?at= of the next view request.
LiveAt(rfn, first) ==
    IF rfn # NoNext THEN AtOf(rfn)
    ELSE IF first THEN AtNow
    ELSE AtNone

\* d[u] = w and d.pop(u, None)
SetItem(d, u, w) == [x \in DOMAIN d \cup {u} |-> IF x = u THEN w ELSE d[x]]
PopItem(d, u) ==
    IF DOMAIN d \ {u} = {} THEN <<>>
    ELSE [x \in DOMAIN d \ {u} |-> d[x]]

\* asyncio.create_task(fetch_chunked_message(segment)): the new task and the
\* id it is known by while it runs.
NewWorker(u) == [uri |-> u, attempt |-> 0, pos |-> 0, pc |-> "created"]
NewTaskId(tasks) ==
    CHOOSE n \in 1..(Cardinality(DOMAIN tasks) + 1) :
        /\ n \notin DOMAIN tasks
        /\ \A m \in 1..(n - 1) : m \in DOMAIN tasks

\* A plausible slip: the test for a running task of the same URI is left out.
StartsWorkerAlways(d, u) == TRUE

\* A plausible slip: one worker at a time, a segment announced while another
\* is being fetched gets no worker.
StartsWorkerWhenIdle(d, u) == DOMAIN d = {}

\* `if segment.uri not in active_segments`: a task is created for the URI.
StartsWorker(d, u) == u \notin DOMAIN d

\* A plausible slip: ready_for_next is cleared at the top of every attempt.
AfterFailedAttemptCleared(rfn) == NoNext

\* ready_for_next after an attempt at the slice has failed: it is cleared
\* before the retry loop, not inside it, so what the attempt stored stays.
AfterFailedAttempt(rfn) == rfn

\* A plausible slip: `retry_count > 3`, one invocation more before giving up.
DriverExceptOneMore(t) ==
    IF t.retry_count + 1 > 3
    THEN [t EXCEPT !.pc = "failed", !.retry_count = t.retry_count + 1]
    ELSE [t EXCEPT !.pc = "sleeping", !.retry_count = t.retry_count + 1,
                   !.attempt = 0, !.pos = 0]

\* The `except Exception` of the retry loop of fetch_chunked_entries().
DriverExcept(t) ==
    IF t.retry_count + 1 >= 3
    THEN [t EXCEPT !.pc = "failed", !.retry_count = t.retry_count + 1]
    ELSE [t EXCEPT !.pc = "sleeping", !.retry_count = t.retry_count + 1,
                   !.attempt = 0, !.pos = 0]

\* chunked_entries_task.cancel(): a task that is over stays as it is.
Cancelled(t) == IF t.pc \in {"done", "failed"} THEN t ELSE [t EXCEPT !.pc = "cancelled"]

\* A plausible slip: an ENDED program is streamed like any other.
RefusesToStartNever(status) == FALSE

\* `if nicolive_program_info.status == 'ENDED': raise ValueError(...)`
RefusesToStart(status) == status = "ENDED"

\* A plausible slip: the comment goes to the front of the queue.
QueuePutFront(q, c) == <<c>> \o q

\* await comment_queue.put(comment)
QueuePut(q, c) == Append(q, c)

\* `asyncio.Queue()`: maxsize is left at its default, and "if maxsize is less
\* than or equal to zero, the queue size is infinite".
maxsize == 0

\* Queue.full(): put() waits while it holds.
full(q) == maxsize > 0 /\ Len(q) >= maxsize

\* A plausible slip: one queue is shared by every instance, so the put of a
\* worker of a finished instance lands in the queue that is being read.
QueueAfterPriorPutShared(q, c) == Append(q, c)

\* The queue of the running instance after a worker of a finished instance has
\* put a comment: that worker holds the queue its own instance created.
QueueAfterPriorPut(q, c) == q

\* The clients, servers and environments of the runs: a request fails in a
\* run in which the program does not end, and in the runs against the servers
\* with the shortest streams; the consumer leaves the stream, closing it or
\* being cancelled, in two runs without faults.
LiveRuns ==
    { [jk |-> FALSE, logged_in |-> FALSE, server |-> "plain",
       env |-> [faults |-> 0, ends |-> TRUE, logins |-> FALSE, leaves |-> FALSE]],
      [jk |-> FALSE, logged_in |-> FALSE, server |-> "plain",
       env |-> [faults |-> MaxFaults, ends |-> FALSE, logins |-> FALSE, leaves |-> FALSE]],
      [jk |-> FALSE, logged_in |-> TRUE, server |-> "short",
       env |-> [faults |-> MaxFaults, ends |-> TRUE, logins |-> TRUE, leaves |-> FALSE]],
      [jk |-> FALSE, logged_in |-> FALSE, server |-> "corrupt",
       env |-> [faults |-> 0, ends |-> TRUE, logins |-> FALSE, leaves |-> FALSE]],
      [jk |-> FALSE, logged_in |-> FALSE, server |-> "corrupt",
       env |-> [faults |-> MaxFaults, ends |-> FALSE, logins |-> FALSE, leaves |-> FALSE]],
      [jk |-> FALSE, logged_in |-> FALSE, server |-> "flaky",
       env |-> [faults |-> MaxFaults, ends |-> TRUE, logins |-> FALSE, leaves |-> FALSE]],
      [jk |-> FALSE, logged_in |-> FALSE, server |-> "down",
       env |-> [faults |-> 0, ends |-> TRUE, logins |-> FALSE, leaves |-> FALSE]],
      [jk |-> FALSE, logged_in |-> FALSE, server |-> "down",
       env |-> [faults |-> MaxFaults, ends |-> FALSE, logins |-> FALSE, leaves |-> FALSE]],
      [jk |-> TRUE, logged_in |-> FALSE, server |-> "short",
       env |-> [faults |-> 0, ends |-> FALSE, logins |-> FALSE, leaves |-> FALSE]],
      [jk |-> FALSE, logged_in |-> FALSE, server |-> "plain",
       env |-> [faults |-> 0, ends |-> FALSE, logins |-> FALSE, leaves |-> TRUE]],
      [jk |-> FALSE, logged_in |-> TRUE, server |-> "short",
       env |-> [faults |-> 0, ends |-> TRUE, logins |-> FALSE, leaves |-> TRUE]] }

\* The view requests after the view GET for `t` has been sent: the ?at= it
\* carries, which invocation of the view fetch by the driver it belongs to and
\* which attempt of fetchProtobufStream it is. A driver that has given up
\* or is waiting before its next request sends none.
Requested(reqs, t) ==
    IF t.pc = "fetching"
    THEN Append(reqs, [at |-> t.at, invocation |-> t.retry_count + 1,
                       attempt |-> t.attempt])
    ELSE reqs

InitLive ==
    /\ ReaderIdle /\ BackIdle /\ ConstructIdle /\ AdmitIdle /\ ResolveIdle /\ HandshakeIdle /\ MonitorIdle /\ LoopIdle
    /\ lpc = "start" /\ instance = 1
    /\ \E run \in LiveRuns :
          /\ jikkyo_channel_id = run.jk
          /\ is_logged_in = run.logged_in
          /\ lserver = run.server
          /\ lenv = run.env
    /\ is_first_time = TRUE /\ ready_for_next = NoNext
    /\ chunked_entries_task = NoTask /\ active_segments = <<>>
    /\ comment_queue = <<>> /\ program_info_task = [state |-> "none"]
    /\ queue_get = NoGet /\ done = {}
    /\ yielded = <<>> /\ faults = 0 /\ liveErr = NoRaise
    /\ segment_tasks = <<>> /\ prior = NoPrior
    /\ resolved = <<>> /\ polledEnded = FALSE /\ opened = {}
    /\ segment_gets = <<>> /\ view_reqs = <<>> /\ started = <<>>
    /\ worker_failed = {} /\ puts = <<>>

\* How many GETs URI u has received.
GetsOf(gets, u) == IF u \in DOMAIN gets THEN gets[u] ELSE 0

\* What stays as it is in every step of a task.
liveFixed == <<instance, jikkyo_channel_id, is_logged_in, lserver, lenv,
               program_info_task, yielded, resolved, polledEnded, done>>

\* The variables of the running instance, and the histories kept of it.
liveInstance == <<is_first_time, ready_for_next, chunked_entries_task,
                  active_segments, segment_tasks, comment_queue, queue_get>>
liveHistory == <<view_reqs, started, puts, worker_failed>>
liveTrace == <<faults, opened, segment_gets>>

\* fetchNicoLiveProgramInfo has come to `res`: an ENDED program raises
\* ValueError, and else fetchNDGRViewURI is called, which raises on an empty
\* URL and else begins to connect.
LiveResolves(res) ==
    LET err == IF res.raised # NoRaise THEN res.raised
               ELSE IF RefusesToStart(res.info.status) THEN "ValueError"
               ELSE IF ~res.info.hasUrl THEN "ValueError"
               ELSE NoRaise
    IN /\ resolved' = Append(resolved, res.info.status)
       /\ IF err # NoRaise
          THEN lpc' = "raised" /\ liveErr' = err
          ELSE lpc' = "connecting" /\ liveErr' = liveErr

\* stream_comments_inner() from the answer to the request for the watch page
\* to its next await: the page of an ENDED program without URL makes a session
\* that is logged in now send the timeshift reservation, and any other page
\* is the ProgramInfo resolved.
LiveStart ==
    /\ lpc = "start"
    /\ \E res \in WatchPageReads({instance}) :
         IF res.raised = NoRaise /\ TimeshiftApplies(res.info, is_logged_in)
         THEN lpc' = "timeshift" /\ UNCHANGED <<resolved, liveErr>>
         ELSE LiveResolves(res)
    /\ UNCHANGED <<instance, jikkyo_channel_id, is_logged_in, lserver, lenv,
                   program_info_task, yielded, polledEnded, done, prior>>
    /\ UNCHANGED <<liveInstance, liveHistory, liveTrace>>
    /\ UNCHANGED otherThanLive

\* The timeshift activation of the first resolve comes to its end, whatever
\* self.is_logged_in has become since the test.
LiveTimeshift ==
    /\ lpc = "timeshift"
    /\ \E res \in TimeshiftResolutions(instance) : LiveResolves(res)
    /\ UNCHANGED <<instance, jikkyo_channel_id, is_logged_in, lserver, lenv,
                   program_info_task, yielded, polledEnded, done, prior>>
    /\ UNCHANGED <<liveInstance, liveHistory, liveTrace>>
    /\ UNCHANGED otherThanLive

\* `async with websockets.connect(...)`: the connection that was begun is
\* made, or refused.
LiveConnect ==
    /\ lpc = "connecting"
    /\ opened' = opened \cup {"websocket"}
    /\ \/ lpc' = "handshake" /\ liveErr' = liveErr
       \/ lpc' = "raised" /\ liveErr' = "OSError"
    /\ UNCHANGED <<liveFixed, prior, liveInstance, liveHistory, faults, segment_gets>>
    /\ UNCHANGED otherThanLive

\* What ends the receive loop of fetchNDGRViewURI without a view URI: the
\* server closes the socket, a frame is no JSON, a frame has no "type".
HandshakeFailures == {"ConnectionClosedOK", "JSONDecodeError", "KeyError"}

\* fetchNDGRViewURI returns the view URI or raises; with the URI the state of
\* the instance is set up, program_info_task and chunked_entries_task are
\* created and the first round of the main loop creates its queue-get task
\* and waits.
LiveHandshake ==
    /\ lpc = "handshake"
    /\ \/ /\ \E e \in HandshakeFailures : liveErr' = e
          /\ lpc' = "raised"
          /\ UNCHANGED <<liveInstance, program_info_task, done, opened, view_reqs,
                         started, puts>>
       \/ /\ lpc' = "running" /\ liveErr' = liveErr
          /\ is_first_time' = TRUE /\ ready_for_next' = NoNext
          /\ comment_queue' = <<>>
          /\ active_segments' = <<>> /\ segment_tasks' = <<>>
          /\ program_info_task' = [state |-> "polling"]
          /\ chunked_entries_task' = [NoTask EXCEPT !.pc = "top"]
          /\ queue_get' = [NoGet EXCEPT !.state = "pending"]
          /\ done' = {}
          /\ opened' = opened \cup {"monitor", "driver"}
          /\ view_reqs' = <<>> /\ started' = <<>> /\ puts' = <<>>
    /\ UNCHANGED <<instance, jikkyo_channel_id, is_logged_in, lserver, lenv, yielded,
                   resolved, polledEnded, prior, faults, segment_gets,
                   worker_failed>>
    /\ UNCHANGED otherThanLive

\* login() of the same client, at any await of streamComments or after it:
\* user_session enters the cookie jar or leaves it.
LiveLogin ==
    /\ lenv.logins
    /\ is_logged_in' = ~is_logged_in
    /\ UNCHANGED <<lpc, instance, jikkyo_channel_id, lserver, lenv, program_info_task,
                   yielded, resolved, polledEnded, done, prior, liveErr>>
    /\ UNCHANGED <<liveInstance, liveHistory, liveTrace>>
    /\ UNCHANGED otherThanLive

\* The instance `who` speaks of: "running", the one the variables of
\* stream_comments_inner describe, or "prior", the one the consumer has
\* left and whose tasks run on until its `finally` has cancelled them.
Inst(who) ==
    IF who = "running"
    THEN [k |-> instance, is_first_time |-> is_first_time,
          ready_for_next |-> ready_for_next, driver |-> chunked_entries_task,
          active |-> active_segments, tasks |-> segment_tasks,
          queue |-> comment_queue, get |-> queue_get]
    ELSE [k |-> prior.instance, is_first_time |-> prior.is_first_time,
          ready_for_next |-> prior.ready_for_next, driver |-> prior.driver,
          active |-> prior.active, tasks |-> prior.tasks,
          queue |-> prior.queue, get |-> prior.get]

\* The view driver of the instance takes its own steps: from its creation to
\* the cancel() of the `finally`, after which its next step is the throw of
\* CancelledError.
DriverRuns(who) ==
    IF who = "running" THEN lpc = "running"
    ELSE prior.pending /\ ~prior.must_cancel

\* So does a segment worker.
WorkerRuns(who, t) ==
    IF who = "running" THEN lpc = "running"
    ELSE prior.pending /\ t \notin prior.cancelled

\* What a step leaves in the histories: view requests sent, workers created,
\* comments put, URIs of failed workers, segment GETs sent, kinds of
\* connection opened, faults of the environment, and what it raised into
\* streamComments.
NoEvent ==
    [reqs |-> <<>>, started |-> <<>>, puts |-> <<>>, failed |-> {},
     gets |-> <<>>, opens |-> {}, faults |-> 0, raised |-> NoRaise]

\* The step of a task of instance `who` that makes the instance J.
Step(who, J, ev) ==
    /\ faults' = faults + ev.faults
    /\ opened' = opened \cup ev.opens
    /\ segment_gets' =
          IF ev.gets = <<>> THEN segment_gets
          ELSE SetItem(segment_gets, ev.gets[1], GetsOf(segment_gets, ev.gets[1]) + 1)
    /\ IF who = "running"
       THEN /\ is_first_time' = J.is_first_time
            /\ ready_for_next' = J.ready_for_next
            /\ chunked_entries_task' = J.driver
            /\ active_segments' = J.active
            /\ segment_tasks' = J.tasks
            /\ comment_queue' = J.queue
            /\ queue_get' = J.get
            /\ view_reqs' = view_reqs \o ev.reqs
            /\ started' = started \o ev.started
            /\ puts' = puts \o ev.puts
            /\ worker_failed' = worker_failed \cup ev.failed
            /\ liveErr' = IF ev.raised = NoRaise THEN liveErr ELSE ev.raised
            /\ lpc' = IF ev.raised = NoRaise THEN lpc ELSE "raised"
            /\ prior' = prior
       ELSE /\ prior' = [prior EXCEPT !.is_first_time = J.is_first_time,
                                      !.ready_for_next = J.ready_for_next,
                                      !.driver = J.driver,
                                      !.active = J.active,
                                      !.tasks = J.tasks,
                                      !.queue = J.queue,
                                      !.get = J.get]
            /\ comment_queue' =
                  IF ev.puts # <<>> /\ lpc = "running"
                  THEN QueueAfterPriorPut(comment_queue, ev.puts[1])
                  ELSE comment_queue
            /\ UNCHANGED <<is_first_time, ready_for_next, chunked_entries_task,
                           active_segments, segment_tasks, queue_get, lpc, liveErr>>
            /\ UNCHANGED liveHistory
    /\ UNCHANGED liveFixed

\* The top of `while True` of fetch_chunked_entries(): the ?at= is chosen,
\* ready_for_next is cleared and the first invocation of the view fetch sends
\* its GET.
BeginSlice(I) ==
    LET at == LiveAt(I.ready_for_next, I.is_first_time)
    IN [I EXCEPT !.is_first_time = IF at = AtNow THEN FALSE ELSE @,
                 !.ready_for_next = NoNext,
                 !.driver = [pc |-> "fetching", at |-> at, retry_count |-> 0,
                             attempt |-> 0, pos |-> 0]]

\* The first step of chunked_entries_task.
ViewBegin(who) ==
    /\ DriverRuns(who) /\ Inst(who).driver.pc = "top"
    /\ LET J == BeginSlice(Inst(who))
       IN Step(who, J, [NoEvent EXCEPT !.reqs = Requested(<<>>, J.driver),
                                       !.opens = {"view"}])
    /\ UNCHANGED otherThanLive

\* The view fetch yields the next ChunkedEntry of the slice: a Segment creates
\* a worker unless its URI is in active_segments, a Next is kept. A frame that
\* does not parse raises through fetchProtobufStream into the retry loop,
\* whose `except` counts it and gives up or goes to sleep.
ViewEntry(who) ==
    /\ DriverRuns(who) /\ Inst(who).driver.pc = "fetching"
    /\ LET I == Inst(who)
           t == I.driver
           es == ViewSlice(lserver, I.k, t.at, t.retry_count + 1)
       IN /\ t.pos < Len(es)
          /\ LET e == es[t.pos + 1]
                 starts == e.kind = "segment" /\ StartsWorker(I.active, e.uri)
                 tid == NewTaskId(I.tasks)
                 J == [I EXCEPT
                         !.tasks = IF starts THEN SetItem(@, tid, NewWorker(e.uri)) ELSE @,
                         !.active = IF starts THEN SetItem(@, e.uri, tid) ELSE @,
                         !.ready_for_next =
                            IF e.kind = "next" THEN e.at
                            ELSE IF e.kind = "malformed" THEN AfterFailedAttempt(@)
                            ELSE @,
                         !.driver = IF e.kind = "malformed" THEN DriverExcept(t)
                                    ELSE [t EXCEPT !.pos = t.pos + 1]]
             IN Step(who, J,
                     [NoEvent EXCEPT
                        !.started = IF starts
                                    THEN <<[uri |-> e.uri, req |-> Len(view_reqs),
                                            entry |-> t.pos + 1]>>
                                    ELSE <<>>])
    /\ UNCHANGED otherThanLive

\* The body of the slice ends: the retry loop is left, and the driver ends if
\* no Next was seen and else sends the GET of the next slice.
ViewClose(who) ==
    /\ DriverRuns(who) /\ Inst(who).driver.pc = "fetching"
    /\ LET I == Inst(who)
           t == I.driver
       IN /\ t.pos = Len(ViewSlice(lserver, I.k, t.at, t.retry_count + 1))
          /\ IF I.ready_for_next = NoNext
             THEN Step(who, [I EXCEPT !.driver.pc = "done"], NoEvent)
             ELSE LET J == BeginSlice(I)
                  IN Step(who, J, [NoEvent EXCEPT !.reqs = Requested(<<>>, J.driver)])
    /\ UNCHANGED otherThanLive

\* `await asyncio.sleep(3)` of fetchProtobufStream after a fault with
\* attempts left.
Backoff(t) == [t EXCEPT !.pc = "backoff", !.pos = 0]

\* The view GET fails (connect, status or mid-body): fetchProtobufStream goes
\* to sleep before its next attempt, or raises to the driver after its last.
ViewTransportFault(who) ==
    /\ DriverRuns(who) /\ Inst(who).driver.pc = "fetching"
    /\ faults < lenv.faults
    /\ LET I == Inst(who)
           t == I.driver
       IN Step(who,
               [I EXCEPT !.driver = IF HasRetryLeft(t.attempt) THEN Backoff(t)
                                    ELSE DriverExcept(t),
                         !.ready_for_next = AfterFailedAttempt(@)],
               [NoEvent EXCEPT !.faults = 1])
    /\ UNCHANGED otherThanLive

\* A frame of the view body does not parse as a ChunkedEntry, this once: the
\* error is no httpx error, so it passes through fetchProtobufStream to the
\* `except` of the driver.
ViewParseFault(who) ==
    /\ DriverRuns(who) /\ Inst(who).driver.pc = "fetching"
    /\ faults < lenv.faults
    /\ LET I == Inst(who)
       IN Step(who,
               [I EXCEPT !.driver = DriverExcept(I.driver),
                         !.ready_for_next = AfterFailedAttempt(@)],
               [NoEvent EXCEPT !.faults = 1])
    /\ UNCHANGED otherThanLive

\* The sleep of the driver is over, the one of fetchProtobufStream or the
\* one of its own `except`: the view GET is sent again.
ViewWake(who) ==
    /\ DriverRuns(who) /\ Inst(who).driver.pc \in {"backoff", "sleeping"}
    /\ LET I == Inst(who)
           t == I.driver
           u == IF t.pc = "backoff"
                THEN [t EXCEPT !.pc = "fetching", !.attempt = t.attempt + 1]
                ELSE [t EXCEPT !.pc = "fetching"]
       IN Step(who, [I EXCEPT !.driver = u],
               [NoEvent EXCEPT !.reqs = Requested(<<>>, u)])
    /\ UNCHANGED otherThanLive

\* `finally: active_segments.pop(segment.uri, None)`, and the task is over.
WorkerLeaves(I, t) ==
    [I EXCEPT !.active = PopItem(@, I.tasks[t].uri), !.tasks = PopItem(@, t)]

\* A plausible slip: the handler re-raises what it has logged.
ExceptExceptionReraises(e) == e

\* `except Exception:` of fetch_chunked_message: the error is printed and the
\* coroutine goes on to its `finally`; nothing is raised out of the task.
ExceptException(e) == NoRaise

\* The segment fetch raises e into fetch_chunked_message: the worker ends, and
\* what leaves its task, if anything, ends streamComments.
WorkerFails(who, t, e, n) ==
    LET I == Inst(who)
    IN Step(who, WorkerLeaves(I, t),
            [NoEvent EXCEPT !.failed = {I.tasks[t].uri},
                            !.raised = ExceptException(e),
                            !.faults = n])

\* The segment GET has failed: fetchProtobufStream goes to sleep before its
\* next attempt, or raises after its last.
WorkerGetFailed(who, t, n) ==
    LET I == Inst(who)
        w == I.tasks[t]
    IN IF HasRetryLeft(w.attempt)
       THEN Step(who, [I EXCEPT !.tasks[t] = Backoff(w)],
                 [NoEvent EXCEPT !.faults = n])
       ELSE WorkerFails(who, t, "transport", n)

\* The worker is at the body of its segment.
Fetching(who, t) ==
    /\ WorkerRuns(who, t) /\ t \in DOMAIN Inst(who).tasks
    /\ Inst(who).tasks[t].pc = "fetching"

\* The first step of a task of fetch_chunked_message(segment): the segment
\* GET is sent.
WorkerBegin(who, t) ==
    /\ WorkerRuns(who, t) /\ t \in DOMAIN Inst(who).tasks
    /\ Inst(who).tasks[t].pc = "created"
    /\ LET I == Inst(who)
       IN Step(who, [I EXCEPT !.tasks[t].pc = "fetching"],
               [NoEvent EXCEPT !.gets = <<I.tasks[t].uri>>, !.opens = {"segment"}])
    /\ UNCHANGED otherThanLive

\* The segment fetch yields the next ChunkedMessage of the body; unless
\* ignored it is converted and put on the queue of the instance.
WorkerReceive(who, t) ==
    /\ Fetching(who, t)
    /\ LET I == Inst(who)
           w == I.tasks[t]
           ms == SegmentStream(w.uri)
       IN /\ w.pos < Len(ms)
          /\ ~SegmentBreaks(lserver, w.uri)
          /\ IsIgnored(ms[w.pos + 1]) \/ ~full(I.queue)
          /\ IF IsIgnored(ms[w.pos + 1])
             THEN Step(who, [I EXCEPT !.tasks[t].pos = w.pos + 1], NoEvent)
             ELSE Step(who,
                       [I EXCEPT !.tasks[t].pos = w.pos + 1,
                                 !.queue = QueuePut(@, convertToNDGRComment(ms[w.pos + 1]))],
                       [NoEvent EXCEPT !.puts = <<convertToNDGRComment(ms[w.pos + 1])>>])
    /\ UNCHANGED otherThanLive

\* The body of the segment ends: the worker leaves active_segments.
WorkerEnd(who, t) ==
    /\ Fetching(who, t)
    /\ LET I == Inst(who)
       IN /\ I.tasks[t].pos = Len(SegmentStream(I.tasks[t].uri))
          /\ Step(who, WorkerLeaves(I, t), NoEvent)
    /\ UNCHANGED otherThanLive

\* The segment GET fails, this once (connect, status or mid-body).
WorkerTransportFault(who, t) ==
    /\ Fetching(who, t)
    /\ faults < lenv.faults
    /\ WorkerGetFailed(who, t, 1)
    /\ UNCHANGED otherThanLive

\* The GET of a segment whose requests all fail has failed.
WorkerStreamBreaks(who, t) ==
    /\ Fetching(who, t)
    /\ SegmentBreaks(lserver, Inst(who).tasks[t].uri)
    /\ WorkerGetFailed(who, t, 0)
    /\ UNCHANGED otherThanLive

\* A frame of the segment body does not parse as a ChunkedMessage: the worker
\* logs the error and ends.
WorkerParseFault(who, t) ==
    /\ Fetching(who, t)
    /\ faults < lenv.faults
    /\ WorkerFails(who, t, "parse", 1)
    /\ UNCHANGED otherThanLive

\* The sleep of fetchProtobufStream is over: the segment GET is sent again,
\* to be decoded by a fresh reader.
WorkerWake(who, t) ==
    /\ WorkerRuns(who, t) /\ t \in DOMAIN Inst(who).tasks
    /\ Inst(who).tasks[t].pc = "backoff"
    /\ LET I == Inst(who)
           w == I.tasks[t]
       IN Step(who,
               [I EXCEPT !.tasks[t] = [w EXCEPT !.pc = "fetching",
                                                !.attempt = w.attempt + 1]],
               [NoEvent EXCEPT !.gets = <<w.uri>>])
    /\ UNCHANGED otherThanLive

\* The step of the task of comment_queue.get(): it takes the head of the
\* queue and is done. The task of the round in which the signal was handled
\* is cancelled by nobody and goes on like this.
QueueGet(who) ==
    /\ IF who = "running" THEN lpc = "running" ELSE prior.instance > 0
    /\ Inst(who).get.state = "pending" /\ Inst(who).queue # <<>>
    /\ LET I == Inst(who)
       IN Step(who, [I EXCEPT !.get = [state |-> "done", result |-> Head(I.queue)],
                              !.queue = Tail(I.queue)],
               NoEvent)
    /\ UNCHANGED otherThanLive

\* The monitor's task is done.
Signalled == program_info_task.state \in {"ENDED", "RESTART"}

\* asyncio.wait returns with the queue-get task in `done` and `for task in
\* done` comes to it first: its comment is yielded. The monitor's task, if
\* done by now, is in `done` as well.
MainYield ==
    /\ lpc = "running" /\ queue_get.state = "done"
    /\ yielded' = Append(yielded, queue_get.result)
    /\ queue_get' = [queue_get EXCEPT !.state = "yielded"]
    /\ done' = IF Signalled THEN {"program_info_task"} ELSE {}
    /\ UNCHANGED <<lpc, instance, jikkyo_channel_id, is_logged_in, lserver, lenv,
                   program_info_task, resolved, polledEnded, liveErr, prior>>
    /\ UNCHANGED <<is_first_time, ready_for_next, chunked_entries_task,
                   active_segments, segment_tasks, comment_queue>>
    /\ UNCHANGED <<liveHistory, liveTrace>>
    /\ UNCHANGED otherThanLive

\* The caller asks for the next comment and `done` is exhausted:
\* comment_queue.task_done(), and the next round creates its queue-get task
\* and waits.
MainResume ==
    /\ lpc = "running" /\ queue_get.state = "yielded" /\ done = {}
    /\ queue_get' = [NoGet EXCEPT !.state = "pending"]
    /\ UNCHANGED <<lpc, instance, jikkyo_channel_id, is_logged_in, lserver, lenv,
                   program_info_task, yielded, resolved, polledEnded, done,
                   liveErr, prior>>
    /\ UNCHANGED <<is_first_time, ready_for_next, chunked_entries_task,
                   active_segments, segment_tasks, comment_queue>>
    /\ UNCHANGED <<liveHistory, liveTrace>>
    /\ UNCHANGED otherThanLive

\* A plausible slip: ENDED is returned whatever the client is bound to.
MonitorSignalEndedForAll(jk, info, tracked) ==
    IF info.status = "ENDED" THEN "ENDED"
    ELSE IF jk /\ info.program # tracked THEN "RESTART"
    ELSE "polling"

\* What a poll that resolved `info` makes fetch_program_info() return, if
\* anything: ENDED for a handle that is no channel when the status is ENDED,
\* RESTART for a channel whose program id differs from the tracked one.
MonitorSignal(jk, info, tracked) ==
    IF ~jk /\ info.status = "ENDED" THEN "ENDED"
    ELSE IF jk /\ info.program # tracked THEN "RESTART"
    ELSE "polling"

\* The programs the watch page can show at a poll of the instance that tracks
\* program `k`.
PolledProgramsOf(k) ==
    IF jikkyo_channel_id /\ k < MaxInstances THEN {k, k + 1} ELSE {k}

PolledPrograms == PolledProgramsOf(instance)

\* fetchNicoLiveProgramInfo of a poll has come to `res`: an exception is
\* logged and the monitor polls on, and else the monitor returns its signal
\* or polls on. polledEnded records that the watch page of a handle that is no
\* channel showed ENDED.
PollResolves(res, sawEnded) ==
    /\ program_info_task' =
          [state |-> IF res.raised # NoRaise THEN "polling"
                     ELSE MonitorSignal(jikkyo_channel_id, res.info, instance)]
    /\ polledEnded' = (polledEnded \/ (~jikkyo_channel_id /\ sawEnded))

\* fetch_program_info(): one poll, from the answer to the request for the
\* watch page to the next await. The page of an ENDED program without URL
\* makes a session that is logged in now send the timeshift reservation. The
\* first poll comes after the sleep to the next minute, the view driver having
\* taken its first step long since.
MonitorPoll ==
    /\ lpc = "running" /\ program_info_task.state = "polling"
    /\ chunked_entries_task.pc # "top"
    /\ \E res \in WatchPageReads(PolledPrograms) :
         /\ (~jikkyo_channel_id /\ res.info.status = "ENDED") => lenv.ends
         /\ IF res.raised = NoRaise /\ TimeshiftApplies(res.info, is_logged_in)
            THEN /\ program_info_task' = [state |-> "timeshift"]
                 /\ polledEnded' = polledEnded
            ELSE PollResolves(res, res.info.status = "ENDED")
    /\ UNCHANGED <<lpc, instance, jikkyo_channel_id, is_logged_in, lserver, lenv,
                   yielded, resolved, done, liveErr, prior>>
    /\ UNCHANGED <<liveInstance, liveHistory, liveTrace>>
    /\ UNCHANGED otherThanLive

\* The timeshift activation of a poll comes to its end, whatever
\* self.is_logged_in has become since the test. Which of the programs the
\* page showed is drawn here, nothing having depended on it before.
MonitorTimeshift ==
    /\ lpc = "running" /\ program_info_task.state = "timeshift"
    /\ \E p \in PolledPrograms : \E res \in TimeshiftResolutions(p) :
         PollResolves(res, TRUE)
    /\ UNCHANGED <<lpc, instance, jikkyo_channel_id, is_logged_in, lserver, lenv,
                   yielded, resolved, done, liveErr, prior>>
    /\ UNCHANGED <<liveInstance, liveHistory, liveTrace>>
    /\ UNCHANGED otherThanLive

\* The monitor's result is yielded: asyncio.wait has returned and `for task in
\* done` comes to program_info_task first, or the generator is resumed at
\* `yield comment` with that task left in `done`. streamComments returns on
\* ENDED and calls stream_comments_inner() again on RESTART, which sends the
\* request for the watch page. The instance is left suspended at its yield:
\* its tasks, the queue-get task of this round among them, run on as `prior`
\* until its `finally` is executed, and the variables of the instance stay as
\* the generator left them. What a queue-get task that was done held is
\* yielded to nobody.
\* An earlier instance has been torn down by now, polls being a minute apart.
\* `why` tells how the consumer left the instance: "signal", "close" or
\* "cancel".
Left(why) ==
    [pending |-> TRUE, cancelling |-> FALSE, must_cancel |-> FALSE,
     mon_cancel |-> FALSE, why |-> why,
     instance |-> instance,
     is_first_time |-> is_first_time, ready_for_next |-> ready_for_next,
     driver |-> chunked_entries_task, monitor |-> program_info_task.state,
     active |-> active_segments, tasks |-> segment_tasks,
     queue |-> comment_queue, get |-> queue_get,
     unbegun |-> {}, cancelled |-> {}]

MainSignal ==
    /\ lpc = "running" /\ Signalled
    /\ \/ queue_get.state \in {"pending", "done"}
       \/ queue_get.state = "yielded" /\ done # {}
    /\ ~prior.pending
    /\ IF program_info_task.state = "ENDED"
       THEN lpc' = "returned" /\ instance' = instance
       ELSE lpc' = "start" /\ instance' = instance + 1
    /\ prior' = Left("signal")
    /\ active_segments' = <<>> /\ segment_tasks' = <<>>
    /\ done' = {}
    /\ UNCHANGED <<jikkyo_channel_id, is_logged_in, lserver, lenv, is_first_time,
                   ready_for_next, chunked_entries_task, comment_queue, queue_get,
                   program_info_task, yielded, liveErr, resolved, polledEnded>>
    /\ UNCHANGED <<liveHistory, liveTrace>>
    /\ UNCHANGED otherThanLive

\* A plausible slip: the handler catches what a cancel() throws as well, as
\* `except Exception` did when CancelledError was an Exception.
ExceptExceptionCatchesAny(e) == TRUE

\* What `except Exception:` catches: asyncio.CancelledError derives from
\* BaseException and passes it.
ExceptExceptionCatches(e) == e # "CancelledError"

\* The view driver is over.
IsOver(t) == t.pc \in {"none", "done", "failed", "cancelled"}

\* The monitor, given the state of its task, is over.
MonitorOver(m) == m \notin {"polling", "timeshift"}

\* The cancel() calls of the `finally` on the tasks of the instance `p`: on
\* every task in active_segments, on the view driver and on the monitor. A
\* task that is over takes no notice; a worker that has not taken its first
\* step is `unbegun`.
Cancelling(p) ==
    [p EXCEPT
       !.cancelling = TRUE,
       !.cancelled = {p.active[u] : u \in DOMAIN p.active},
       !.unbegun = {t \in {p.active[u] : u \in DOMAIN p.active} :
                      t \in DOMAIN p.tasks /\ p.tasks[t].pc = "created"},
       !.must_cancel = ~IsOver(p.driver),
       !.mon_cancel = ~MonitorOver(p.monitor)]

\* The consumer leaves the stream at a comment it was handed: streamComments
\* is closed at its `yield` and stream_comments_inner is left suspended at
\* `yield comment`, the monitor polling on with the other tasks as `prior`
\* until the `finally` is executed.
CallerCloses ==
    /\ lpc = "running" /\ queue_get.state = "yielded"
    /\ lenv.leaves /\ ~prior.pending
    /\ lpc' = "closed"
    /\ prior' = Left("close")
    /\ active_segments' = <<>> /\ segment_tasks' = <<>>
    /\ done' = {}
    /\ UNCHANGED <<instance, jikkyo_channel_id, is_logged_in, lserver, lenv,
                   is_first_time, ready_for_next, chunked_entries_task,
                   comment_queue, queue_get, program_info_task, yielded, liveErr,
                   resolved, polledEnded>>
    /\ UNCHANGED <<liveHistory, liveTrace>>
    /\ UNCHANGED otherThanLive

\* The task that consumes the stream is cancelled while stream_comments_inner
\* is in `await asyncio.wait`: CancelledError is thrown there, the tasks waited
\* for are left alone, and the `finally` runs at once up to its `await`.
CallerCancels ==
    /\ lpc = "running" /\ queue_get.state \in {"pending", "done"}
    /\ lenv.leaves /\ ~prior.pending
    /\ lpc' = "finally"
    /\ prior' = Cancelling(Left("cancel"))
    /\ active_segments' = <<>> /\ segment_tasks' = <<>>
    /\ done' = {}
    /\ UNCHANGED <<instance, jikkyo_channel_id, is_logged_in, lserver, lenv,
                   is_first_time, ready_for_next, chunked_entries_task,
                   comment_queue, queue_get, program_info_task, yielded, liveErr,
                   resolved, polledEnded>>
    /\ UNCHANGED <<liveHistory, liveTrace>>
    /\ UNCHANGED otherThanLive

\* What the steps of a teardown leave as they are.
teardownFixed == <<lpc, instance, jikkyo_channel_id, is_logged_in, lserver, lenv,
                   program_info_task, yielded, resolved, polledEnded, done, liveErr>>

\* The monitor of an instance the consumer has left polls on: one poll or the
\* end of its timeshift activation, as MonitorPoll and MonitorTimeshift.
PriorMonitorPoll ==
    /\ prior.pending /\ ~prior.mon_cancel /\ ~MonitorOver(prior.monitor)
    /\ \E p \in PolledProgramsOf(prior.instance) :
       \E res \in (IF prior.monitor = "polling" THEN WatchPageReads({p})
                   ELSE TimeshiftResolutions(p)) :
         /\ (~jikkyo_channel_id /\ res.info.status = "ENDED") => lenv.ends
         /\ prior' = [prior EXCEPT !.monitor =
                IF res.raised # NoRaise THEN "polling"
                ELSE IF /\ prior.monitor = "polling"
                        /\ TimeshiftApplies(res.info, is_logged_in)
                     THEN "timeshift"
                     ELSE MonitorSignal(jikkyo_channel_id, res.info, prior.instance)]
    /\ UNCHANGED <<teardownFixed, liveInstance, liveHistory, liveTrace>>
    /\ UNCHANGED otherThanLive

\* The `finally` of an instance the consumer has left, run when the generator
\* is finalised, up to its `await`: the cancel() calls and the call of gather.
TeardownCancel ==
    /\ prior.pending /\ ~prior.cancelling
    /\ prior' = Cancelling(prior)
    /\ UNCHANGED <<teardownFixed, liveInstance, liveHistory, liveTrace>>
    /\ UNCHANGED otherThanLive

\* The cancelled monitor takes its next step: CancelledError is thrown at its
\* suspension point, the sleep to the next minute or a request inside the
\* `try`, and leaves the task unless the `except` catches it there.
PriorMonitorCancelled ==
    /\ prior.pending /\ prior.mon_cancel
    /\ prior' = [prior EXCEPT
                   !.mon_cancel = FALSE,
                   !.monitor = IF /\ ExceptExceptionCatches("CancelledError")
                                  /\ @ = "timeshift"
                               THEN "polling"
                               ELSE "cancelled"]
    /\ UNCHANGED <<teardownFixed, liveInstance, liveHistory, liveTrace>>
    /\ UNCHANGED otherThanLive

\* The step of a cancelled worker: a task that has begun gets CancelledError
\* at its suspension point and its `finally` pops its URI; a task cancelled
\* before its first step ends without entering its `try`, so its URI stays.
PriorWorkerCancelled(t) ==
    /\ prior.pending /\ prior.cancelling
    /\ t \in DOMAIN prior.tasks /\ t \in prior.cancelled
    /\ prior' = [prior EXCEPT
                   !.tasks = PopItem(@, t),
                   !.active = IF t \in prior.unbegun THEN @
                              ELSE PopItem(@, prior.tasks[t].uri)]
    /\ UNCHANGED <<teardownFixed, liveInstance, liveHistory, liveTrace>>
    /\ UNCHANGED otherThanLive

\* The cancelled view driver takes its next step: CancelledError is thrown at
\* its suspension point, the GET inside the `try` of the retry loop or one of
\* the sleeps, and leaves the task unless the `except` of the loop catches it.
PriorDriverCancelled ==
    /\ prior.pending /\ prior.must_cancel
    /\ prior' = [prior EXCEPT
                   !.must_cancel = FALSE,
                   !.driver = IF /\ ExceptExceptionCatches("CancelledError")
                                 /\ @.pc \in {"fetching", "backoff"}
                              THEN DriverExcept(@)
                              ELSE Cancelled(@)]
    /\ UNCHANGED <<teardownFixed, liveInstance, liveHistory, liveTrace>>
    /\ UNCHANGED otherThanLive

\* `await asyncio.gather(..., return_exceptions=True)` returns: the view driver
\* and the monitor are over, the cancelled workers have received their
\* CancelledError and are over, and what the tasks raised is in the list
\* nobody reads. A queue-get task that a put had woken was scheduled before
\* the cancellations and has run by now. The CancelledError that brought a
\* cancelled consumer into the `finally` goes on to it.
Teardown ==
    /\ prior.pending /\ prior.cancelling
    /\ ~prior.must_cancel /\ IsOver(prior.driver)
    /\ ~prior.mon_cancel /\ MonitorOver(prior.monitor)
    /\ prior.cancelled \cap DOMAIN prior.tasks = {}
    /\ prior.queue # <<>> => prior.get.state # "pending"
    /\ prior' = [prior EXCEPT !.pending = FALSE, !.cancelling = FALSE]
    /\ IF prior.why = "cancel"
       THEN lpc' = "raised" /\ liveErr' = "CancelledError"
       ELSE lpc' = lpc /\ liveErr' = liveErr
    /\ UNCHANGED <<instance, jikkyo_channel_id, is_logged_in, lserver, lenv,
                   program_info_task, yielded, resolved, polledEnded, done>>
    /\ UNCHANGED <<liveInstance, liveHistory, liveTrace>>
    /\ UNCHANGED otherThanLive

TaskIds == 1..(2 * MaxInstances)

\* The steps of the tasks of an instance.
TaskStep(who) ==
    \/ ViewBegin(who) \/ ViewEntry(who) \/ ViewClose(who)
    \/ ViewTransportFault(who) \/ ViewParseFault(who) \/ ViewWake(who)
    \/ QueueGet(who)
    \/ \E t \in TaskIds :
          \/ WorkerBegin(who, t) \/ WorkerReceive(who, t) \/ WorkerEnd(who, t)
          \/ WorkerTransportFault(who, t) \/ WorkerParseFault(who, t)
          \/ WorkerStreamBreaks(who, t) \/ WorkerWake(who, t)

\* Every step but a poll of the monitor.
NextLiveUnpolled ==
    \/ LiveStart \/ LiveTimeshift \/ LiveConnect \/ LiveHandshake \/ LiveLogin
    \/ \E who \in {"running", "prior"} : TaskStep(who)
    \/ MainYield \/ MainResume \/ MainSignal \/ CallerCloses \/ CallerCancels
    \/ PriorMonitorPoll \/ PriorMonitorCancelled
    \/ TeardownCancel \/ PriorDriverCancelled \/ Teardown
    \/ \E t \in TaskIds : PriorWorkerCancelled(t)

NextLive == NextLiveUnpolled \/ MonitorPoll \/ MonitorTimeshift

SpecLive == InitLive /\ [][NextLive]_vars

\* C6 (as claimed): no comment id is yielded to the caller more than once,
\* also when a segment GET fails part-way and is retried and when a retried
\* view slice announces again a segment whose worker has finished.
C6_NoDuplicateIds ==
    \A i \in 1..Len(yielded), j \in 1..Len(yielded) :
        i < j => yielded[i].id # yielded[j].id

\* C12: if the first ProgramInfo resolved for the handle has status ENDED,
\* streamComments has raised, has yielded no comment, and has opened no
\* WebSocket, view stream or segment stream and started no task.
C12_EndedProgramIsRefused ==
    (resolved # <<>> /\ resolved[1] = "ENDED")
        => /\ lpc = "raised" /\ liveErr = "ValueError"
           /\ yielded = <<>> /\ opened = {}
           /\ chunked_entries_task = NoTask /\ program_info_task.state = "none"
           /\ segment_tasks = <<>> /\ active_segments = <<>>

\* An ENDED program was resolved at the start and refused, the session being
\* logged in.
C12_Witness ==
    /\ resolved = <<"ENDED">> /\ lpc = "raised" /\ is_logged_in

\* C13 (as claimed): for a handle that is no channel, once a monitor poll has
\* seen the program's status ENDED the monitor has emitted ENDED, for logged-in
\* and anonymous sessions alike and whatever the timeshift calls answer.
C13_EndedPollEmitsEnded ==
    (~jikkyo_channel_id /\ polledEnded) => program_info_task.state = "ENDED"

\* C14 (as claimed): after a RESTART handoff the caller's iteration has not
\* raised, whatever the successor instance resolved.
C14_HandoffNeverRaises ==
    instance >= 2 => lpc # "raised"

\* C15 (as claimed): when the monitor's ENDED or RESTART signal is processed,
\* no comment is left on the queue of the instance: whatever the workers had
\* put there has been yielded to the caller.
C15_SignalFindsQueueDrained ==
    [][(lpc = "running" /\ lpc' \in {"returned", "start"}) => comment_queue = <<>>]_vars

\* C16: the comments the caller has received are grouped by program in handoff
\* order: after a comment of a successor program none of a prior program
\* follows.
C16_NoPriorAfterSuccessor ==
    \A i \in 1..Len(yielded), j \in 1..Len(yielded) :
        i < j => ProgramOf(yielded[i].id) <= ProgramOf(yielded[j].id)

\* The caller has a comment of the successor program while a worker of the
\* prior instance is still running with a comment yet to put.
C16_Witness ==
    /\ \E i \in 1..Len(yielded) : ProgramOf(yielded[i].id) = 2
    /\ prior.pending
    /\ \E t \in DOMAIN prior.tasks :
          /\ ProgramOf(SegmentStream(prior.tasks[t].uri)[2].id) = 1
          /\ prior.tasks[t].pos < 2

\* C17 (as claimed): once the view driver has ended because a slice closed
\* without a Next, the stream goes on to its end without a poll of the
\* monitor: while streamComments is still running, some step other than a
\* poll can be taken.
C17_DriverEndEndsStream ==
    (lpc = "running" /\ chunked_entries_task.pc = "done")
        => ENABLED NextLiveUnpolled

\* C18 (as claimed): when the view driver has given up after its retries, the
\* error reaches the caller: streamComments neither ends normally nor hands
\* over to a successor with the error unraised, and while it is still running
\* it is not left waiting for a poll of the monitor.
C18_DriverFailureIsRaised ==
    chunked_entries_task.pc = "failed"
        => /\ lpc \notin {"returned", "start"}
           /\ lpc = "running" => ENABLED NextLiveUnpolled

\* C19 (as claimed): active_segments maps each URI of a running worker to that
\* worker and holds nothing else, so no two running workers share a URI; this
\* holds of the running instance and of a finished instance until its
\* `finally` has run, and once the workers have been cancelled and awaited
\* every one of them has removed its URI.
C19_WorkerSet ==
    /\ \A u \in DOMAIN active_segments :
          /\ active_segments[u] \in DOMAIN segment_tasks
          /\ segment_tasks[active_segments[u]].uri = u
    /\ \A t \in DOMAIN segment_tasks :
          /\ segment_tasks[t].uri \in DOMAIN active_segments
          /\ active_segments[segment_tasks[t].uri] = t
    /\ prior.pending =>
          /\ \A u \in DOMAIN prior.active :
                /\ prior.active[u] \in DOMAIN prior.tasks
                /\ prior.tasks[prior.active[u]].uri = u
          /\ \A t \in DOMAIN prior.tasks :
                /\ prior.tasks[t].uri \in DOMAIN prior.active
                /\ prior.active[prior.tasks[t].uri] = t
    /\ ~prior.pending => prior.tasks = <<>> /\ prior.active = <<>>

\* C19 (amended): as C19_WorkerSet, except that a worker cancelled before its
\* first step leaves its URI behind: from the cancel() calls of the `finally`
\* of a finished instance on, a URI of active_segments belongs to a worker
\* that has yet to receive its CancelledError or to one that was cancelled
\* before its first step, and once the workers have been cancelled and
\* awaited active_segments holds the URIs of the latter only.
C19_WorkerSetBegun ==
    /\ \A u \in DOMAIN active_segments :
          /\ active_segments[u] \in DOMAIN segment_tasks
          /\ segment_tasks[active_segments[u]].uri = u
    /\ \A t \in DOMAIN segment_tasks :
          /\ segment_tasks[t].uri \in DOMAIN active_segments
          /\ active_segments[segment_tasks[t].uri] = t
    /\ prior.pending =>
          /\ \A u \in DOMAIN prior.active :
                \/ /\ prior.active[u] \in DOMAIN prior.tasks
                   /\ prior.tasks[prior.active[u]].uri = u
                \/ /\ prior.cancelling
                   /\ prior.active[u] \in prior.unbegun \cap prior.cancelled
          /\ \A t \in DOMAIN prior.tasks :
                /\ prior.tasks[t].uri \in DOMAIN prior.active
                /\ prior.active[prior.tasks[t].uri] = t
    /\ ~prior.pending =>
          /\ prior.tasks = <<>>
          /\ \A u \in DOMAIN prior.active :
                prior.active[u] \in prior.unbegun \cap prior.cancelled

\* The `finally` of an instance has cancelled a worker that had begun, whose
\* URI is gone, and a worker that had not, whose URI is still there.
C19_Witness ==
    /\ ~prior.pending
    /\ prior.cancelled \ prior.unbegun # {}
    /\ prior.unbegun # {}
    /\ DOMAIN prior.active # {}

\* C20: for two comments a, b that a segment stream emits in that order, the
\* caller never has b without having received a before it, and if the segment
\* was requested once only (no transport fault, no second worker) every a the
\* caller has received precedes every b.
C20_PerSegmentOrder ==
    \A u \in DOMAIN segment_gets :
        LET ms == SegmentStream(u)
        IN \A p \in 1..Len(ms), q \in 1..Len(ms) :
              (p < q /\ ~IsIgnored(ms[p]) /\ ~IsIgnored(ms[q])) =>
                 LET a == convertToNDGRComment(ms[p])
                     b == convertToNDGRComment(ms[q])
                 IN /\ \A j \in 1..Len(yielded) :
                          yielded[j] = b => \E i \in 1..(j - 1) : yielded[i] = a
                    /\ segment_gets[u] = 1 =>
                          \A i \in 1..Len(yielded), j \in 1..Len(yielded) :
                              (yielded[i] = a /\ yielded[j] = b) => i < j

\* The two comments of the first segment have been yielded in order with the
\* comment of the concurrently fetched second segment between them, each
\* segment having been requested once.
C20_Witness ==
    /\ Len(yielded) = 3
    /\ yielded[1] = convertToNDGRComment(SegmentStream(FirstSegment(1))[1])
    /\ yielded[2] = convertToNDGRComment(SegmentStream(SecondSegment(1))[2])
    /\ yielded[3] = convertToNDGRComment(SegmentStream(FirstSegment(1))[2])
    /\ GetsOf(segment_gets, FirstSegment(1)) = 1
    /\ GetsOf(segment_gets, SecondSegment(1)) = 1

\* C21 (as claimed): no comment of the list downloadBackwardComments returns
\* has an empty id, also when the server sends a message with meta, message,
\* chat and modifier set whose meta.id is empty.
C21_NoEmptyId ==
    bresult.returned =>
        \A i \in 1..Len(bresult.list) : bresult.list[i].id # EmptyId

-----------------------------------------------------------------------------
(* NDGRClient.__init__ (SpecConstruct).                                    *)
(*                                                                         *)
(* A handle is the sequence of its characters.                             *)

\* The characters of the handles passed to the constructor.
HandleChars == {"j", "k", "l", "v", "c", "h", "1", "3"}

Handles == UNION {[1..n -> HandleChars] : n \in 0..MaxHandleLen}

\* JIKKYO_CHANNEL_ID_MAP
JIKKYO_CHANNEL_ID_MAP ==
    LET map == {
          <<<<"j", "k", "1">>,
            <<"c", "h", "2", "6", "4", "6", "4", "3", "6">>>>,
          <<<<"j", "k", "2">>,
            <<"c", "h", "2", "6", "4", "6", "4", "3", "7">>>>,
          <<<<"j", "k", "4">>,
            <<"c", "h", "2", "6", "4", "6", "4", "3", "8">>>>,
          <<<<"j", "k", "5">>,
            <<"c", "h", "2", "6", "4", "6", "4", "3", "9">>>>,
          <<<<"j", "k", "6">>,
            <<"c", "h", "2", "6", "4", "6", "4", "4", "0">>>>,
          <<<<"j", "k", "7">>,
            <<"c", "h", "2", "6", "4", "6", "4", "4", "1">>>>,
          <<<<"j", "k", "8">>,
            <<"c", "h", "2", "6", "4", "6", "4", "4", "2">>>>,
          <<<<"j", "k", "9">>,
            <<"c", "h", "2", "6", "4", "6", "4", "8", "5">>>>,
          <<<<"j", "k", "1", "3">>,
            <<"c", "h", "2", "6", "4", "9", "8", "6", "0">>>>,
          <<<<"j", "k", "1", "0", "1">>,
            <<"c", "h", "2", "6", "4", "7", "9", "9", "2">>>>,
          <<<<"j", "k", "2", "1", "1">>,
            <<"c", "h", "2", "6", "4", "6", "8", "4", "6">>>> }
    IN [h \in {e[1] : e \in map} |-> (CHOOSE e \in map : e[1] = h)[2]]

\* str.startswith(prefix)
startswith(s, prefix) ==
    /\ Len(s) >= Len(prefix)
    /\ \A i \in 1..Len(prefix) : s[i] = prefix[i]

\* A plausible slip: whatever is no jk handle is taken for a program id.
IsProgramIdAny(h) == TRUE

\* `nicolive_id.startswith('lv')`
IsProgramId(h) == startswith(h, <<"l", "v">>)

\* NDGRClient.__init__: what the constructor leaves in self.nicolive_id and
\* self.jikkyo_channel_id, or the exception it raises.
init(h) ==
    IF startswith(h, <<"j", "k">>)
    THEN IF h \notin DOMAIN JIKKYO_CHANNEL_ID_MAP
         THEN [raised |-> "ValueError", nicolive_id |-> <<>>, jikkyo_channel_id |-> None]
         ELSE [raised |-> NoRaise, nicolive_id |-> JIKKYO_CHANNEL_ID_MAP[h],
               jikkyo_channel_id |-> h]
    ELSE IF ~IsProgramId(h)
         THEN [raised |-> "ValueError", nicolive_id |-> <<>>, jikkyo_channel_id |-> None]
         ELSE [raised |-> NoRaise, nicolive_id |-> h, jikkyo_channel_id |-> None]

InitConstruct ==
    /\ ReaderIdle /\ BackIdle /\ LiveIdle /\ AdmitIdle /\ ResolveIdle /\ HandshakeIdle /\ MonitorIdle /\ LoopIdle
    /\ cpc = "new" /\ arg_nicolive_id \in Handles
    /\ nicolive_id = <<>> /\ self_jikkyo_channel_id = None
    /\ watched = <<>> /\ cerr = NoRaise

\* NDGRClient(nicolive_id)
Construct ==
    /\ UNCHANGED otherThanConstruct
    /\ cpc = "new"
    /\ LET r == init(arg_nicolive_id)
       IN IF r.raised # NoRaise
          THEN /\ cpc' = "raised" /\ cerr' = r.raised
               /\ UNCHANGED <<nicolive_id, self_jikkyo_channel_id>>
          ELSE /\ cpc' = "constructed" /\ cerr' = cerr
               /\ nicolive_id' = r.nicolive_id
               /\ self_jikkyo_channel_id' = r.jikkyo_channel_id
    /\ UNCHANGED <<arg_nicolive_id, watched>>

\* The first network operation of a client: fetchNicoLiveProgramInfo() requests
\* https://live.nicovideo.jp/watch/{self.nicolive_id}.
FirstWatchPage ==
    /\ UNCHANGED otherThanConstruct
    /\ cpc = "constructed"
    /\ cpc' = "fetched"
    /\ watched' = Append(watched, nicolive_id)
    /\ UNCHANGED <<arg_nicolive_id, nicolive_id, self_jikkyo_channel_id, cerr>>

NextConstruct == Construct \/ FirstWatchPage

SpecConstruct == InitConstruct /\ [][NextConstruct]_vars

\* C22: the constructor succeeds exactly for a handle that starts with jk and
\* is a key of the alias map (the client then tracks the mapped channel handle
\* and is bound to the channel) or starts with lv and not with jk (the client
\* tracks the handle and is bound to no channel); for every other handle it
\* has raised ValueError and no request has been made.
C22_HandleValidation ==
    cpc # "new" =>
        LET h == arg_nicolive_id
            jk == Len(h) >= 2 /\ h[1] = "j" /\ h[2] = "k"
            lv == Len(h) >= 2 /\ h[1] = "l" /\ h[2] = "v"
            alias == jk /\ h \in DOMAIN JIKKYO_CHANNEL_ID_MAP
        IN /\ cpc \in {"constructed", "fetched"} <=> (alias \/ (~jk /\ lv))
           /\ (cpc \in {"constructed", "fetched"} /\ alias) =>
                 /\ nicolive_id = JIKKYO_CHANNEL_ID_MAP[h]
                 /\ self_jikkyo_channel_id = h
           /\ (cpc \in {"constructed", "fetched"} /\ ~jk) =>
                 /\ nicolive_id = h
                 /\ self_jikkyo_channel_id = None
           /\ cpc = "fetched" => watched = <<nicolive_id>>
           /\ cpc = "raised" => cerr = "ValueError" /\ watched = <<>>
           /\ cpc \notin {"constructed", "fetched"} => cpc = "raised"

\* The constructor has refused an unknown jk alias.
C22_Witness ==
    /\ arg_nicolive_id = <<"j", "k", "3">>
    /\ cpc = "raised" /\ cerr = "ValueError"

\* C23: the first view request of an instance carries at=now; every later
\* request either repeats the request before it (a retry of the same slice)
\* or opens a new slice with the at of a Next the slice before delivered;
\* workers are created in the order of announcement. On the plain server
\* without faults the requests are at=now, at=1700000100, at=1700000132 and
\* no more, and the workers are created for the first segment, then the second.
C23_LiveSliceKeys ==
    /\ view_reqs # <<>> =>
          view_reqs[1] = [at |-> AtNow, invocation |-> 1, attempt |-> 0]
    /\ \A i \in 2..Len(view_reqs) :
          LET a == view_reqs[i - 1]
              b == view_reqs[i]
          IN IF b.invocation = 1 /\ b.attempt = 0
             THEN \E n \in 1..a.invocation :
                     \E j \in 1..Len(ViewSlice(lserver, instance, a.at, n)) :
                        LET e == ViewSlice(lserver, instance, a.at, n)[j]
                        IN e.kind = "next" /\ b.at = AtOf(e.at)
             ELSE b.at = a.at
    /\ \A i \in 1..Len(started) :
          /\ started[i].req \in 1..Len(view_reqs)
          /\ LET r == view_reqs[started[i].req]
                 es == ViewSlice(lserver, ProgramOfSegment(started[i].uri),
                                 r.at, r.invocation)
             IN /\ started[i].entry \in 1..Len(es)
                /\ es[started[i].entry].kind = "segment"
                /\ es[started[i].entry].uri = started[i].uri
    /\ \A i \in 1..Len(started), j \in 1..Len(started) :
          i < j => \/ started[i].req < started[j].req
                   \/ /\ started[i].req = started[j].req
                      /\ started[i].entry < started[j].entry
    /\ (lserver = "plain" /\ faults = 0) =>
          /\ Len(view_reqs) <= 3 /\ Len(started) <= 2
          /\ \A i \in 1..Len(view_reqs) :
                view_reqs[i].at = <<AtNow, AtOf(1700000100), AtOf(1700000132)>>[i]
          /\ \A i \in 1..Len(started) :
                started[i].uri = <<FirstSegment(1), SecondSegment(1)>>[i]
          /\ Len(view_reqs) >= 2 => Len(started) >= 1
          /\ Len(view_reqs) >= 3 => Len(started) >= 2
          /\ chunked_entries_task.pc = "done" => Len(view_reqs) = 3

\* The driver has gone through the three slices of the plain server without a
\* fault and has ended.
C23_Witness ==
    /\ lserver = "plain" /\ faults = 0
    /\ chunked_entries_task.pc = "done"
    /\ Len(view_reqs) = 3 /\ Len(started) = 2
    /\ started[1].uri = FirstSegment(1) /\ started[2].uri = SecondSegment(1)

\* C24 (as claimed): downloadBackwardComments has raised 'Duplicated
\* ReadyForNext' only if one single view slice yielded two Next entries;
\* slices that yield one Next each are consumed without that failure.
C24_DuplicateOnlyWithinSlice ==
    berr = "Duplicated ReadyForNext" =>
        \E i \in 1..Len(sliceNexts) : sliceNexts[i] >= 2

\* C25 (as claimed): when the entries read from a view slice come to a
\* Backward entry, that entry is the last one read of the slice, a Next read
\* before it has been recorded, no further view slice is requested, and the
\* walk starts from the URI of that entry (an empty URI makes
\* downloadBackwardComments return the empty list without a GET).
C25_BackwardPreempts ==
    \A j \in 1..Len(lastSlice.es) :
        (/\ lastSlice.es[j].kind = "backward"
         /\ \A i \in 1..(j - 1) : lastSlice.es[i].kind # "backward")
        => /\ lastSlice.read = j
           /\ bpc \in {"walk", "done", "raised"}
           /\ \A i \in 1..(j - 1) :
                 lastSlice.es[i].kind = "next" => b_ready_for_next = lastSlice.es[i].at
           /\ IF lastSlice.es[j].uri = 0
              THEN /\ walkGets = <<>> /\ bpc = "done"
                   /\ bresult = [returned |-> TRUE, list |-> <<>>]
              ELSE IF walkGets = <<>>
              THEN bpc = "walk" /\ backward_api_uri = lastSlice.es[j].uri
              ELSE walkGets[1] = lastSlice.es[j].uri

\* C26: the driver invokes the view fetch at most 3 times for one slice; a
\* request that is no first request of a slice repeats the at of the request
\* before it and is either the next invocation by the driver or the next
\* attempt of the fetcher; there are no more repeated requests than failures;
\* a driver that has stopped with the error has made 3 invocations for its
\* slice and no request after them.
C26_SliceRetryBudget ==
    /\ \A i \in 1..Len(view_reqs) : view_reqs[i].invocation \in 1..3
    /\ \A i \in 2..Len(view_reqs) :
          LET a == view_reqs[i - 1]
              b == view_reqs[i]
          IN (b.invocation > 1 \/ b.attempt > 0) =>
                /\ b.at = a.at
                /\ \/ b.invocation = a.invocation + 1 /\ b.attempt = 0
                   \/ b.invocation = a.invocation /\ b.attempt = a.attempt + 1
    /\ Cardinality({i \in 1..Len(view_reqs) :
                      view_reqs[i].invocation > 1 \/ view_reqs[i].attempt > 0})
          <= faults + (IF lserver = "corrupt" THEN 2
                       ELSE IF lserver = "flaky" THEN 1 ELSE 0)
    /\ chunked_entries_task.pc = "failed" =>
          /\ chunked_entries_task.retry_count = 3
          /\ view_reqs[Len(view_reqs)].invocation = 3
          /\ view_reqs[Len(view_reqs)].at = chunked_entries_task.at
    /\ chunked_entries_task.pc \in {"fetching", "done"} =>
          /\ chunked_entries_task.retry_count < 3
          /\ view_reqs[Len(view_reqs)].invocation = chunked_entries_task.retry_count + 1
    /\ chunked_entries_task.pc = "sleeping" =>
          /\ chunked_entries_task.retry_count \in 1..2
          /\ view_reqs[Len(view_reqs)].invocation = chunked_entries_task.retry_count
          /\ view_reqs[Len(view_reqs)].at = chunked_entries_task.at

\* The three invocations for the slice of the corrupt server have failed and
\* the driver has stopped.
C26_Witness ==
    /\ lserver = "corrupt" /\ chunked_entries_task.pc = "failed"
    /\ Len(view_reqs) = 3
    /\ \A i \in 1..3 : view_reqs[i] = [at |-> AtNow, invocation |-> i, attempt |-> 0]

\* C27: a request that opens a new slice carries the at of the last Next the
\* slice before delivered, counted over all invocations made for that slice:
\* the Next of the last invocation that delivered one. On the flaky server,
\* whose first invocation delivers a Next and fails and whose second delivers
\* nothing and succeeds, the next slice is requested with that Next.
C27_NextSurvivesRetry ==
    /\ \A i \in 2..Len(view_reqs) :
          LET a == view_reqs[i - 1]
              b == view_reqs[i]
          IN IF b.invocation = 1 /\ b.attempt = 0
             THEN \E n \in 1..a.invocation :
                     LET es == ViewSlice(lserver, instance, a.at, n)
                     IN /\ \E j \in 1..Len(es) :
                              /\ es[j].kind = "next" /\ b.at = AtOf(es[j].at)
                              /\ \A l \in (j + 1)..Len(es) : es[l].kind # "next"
                        /\ \A m \in (n + 1)..a.invocation :
                              \A l \in 1..Len(ViewSlice(lserver, instance, a.at, m)) :
                                 ViewSlice(lserver, instance, a.at, m)[l].kind # "next"
             ELSE b.at = a.at
    /\ (lserver = "flaky" /\ faults = 0 /\ Len(view_reqs) >= 3) =>
          /\ view_reqs[2] = [at |-> AtNow, invocation |-> 2, attempt |-> 0]
          /\ view_reqs[3] = [at |-> AtOf(1700000100), invocation |-> 1, attempt |-> 0]
    /\ (lserver = "flaky" /\ faults = 0 /\ chunked_entries_task.pc = "done") =>
          Len(view_reqs) = 3

\* On the flaky server the slice after at=now has been requested with the Next
\* that only the failed first invocation delivered.
C27_Witness ==
    /\ lserver = "flaky" /\ faults = 0
    /\ Len(view_reqs) = 3
    /\ view_reqs[2] = [at |-> AtNow, invocation |-> 2, attempt |-> 0]
    /\ view_reqs[3].at = AtOf(1700000100)
    /\ ViewSlice(lserver, instance, AtNow, 2) = <<>>

\* The step in which a worker fails removes that worker alone.
C28_FailureStep ==
    worker_failed' # worker_failed =>
        /\ lpc = "running" /\ lpc' = "running" /\ liveErr' = NoRaise
        /\ comment_queue' = comment_queue /\ yielded' = yielded
        /\ chunked_entries_task' = chunked_entries_task
        /\ program_info_task' = program_info_task
        /\ Cardinality(DOMAIN segment_tasks') = Cardinality(DOMAIN segment_tasks) - 1
        /\ \A t \in DOMAIN segment_tasks' :
              t \in DOMAIN segment_tasks /\ segment_tasks'[t] = segment_tasks[t]

\* Once a worker of the running instance has failed.
C28_AfterFailure ==
    (\E u \in worker_failed : ProgramOfSegment(u) = instance) =>
        /\ lpc \in {"running", "returned"} /\ liveErr = NoRaise
        /\ lpc = "returned" => program_info_task.state = "ENDED"
        /\ (lpc = "running" /\ instance = 1) =>
              yielded \o (IF queue_get.state = "done" THEN <<queue_get.result>> ELSE <<>>)
                      \o comment_queue = puts

\* C28: a segment worker whose fetch fails, at once on a parse error or after
\* the fetcher's retries, ends without raising into streamComments. The step
\* in which it fails removes that worker alone: the stream neither ends nor
\* raises, the queue keeps what it holds, and the view driver, the monitor and
\* the other workers stay as they are. Afterwards the stream ends only on the
\* monitor's signal, and every comment put on the queue has been yielded, is
\* held by the queue-get task or is waiting on the queue.
C28_WorkerFailureContained == [][C28_FailureStep]_vars /\ []C28_AfterFailure

\* On the down server the worker of the first segment has failed after its
\* five GETs, the worker of the second segment has gone on to queue its
\* comment, and the stream has yielded it and is still running.
C28_Witness ==
    /\ lserver = "down" /\ lpc = "running" /\ faults = 0
    /\ FirstSegment(instance) \in worker_failed
    /\ GetsOf(segment_gets, FirstSegment(instance)) = max_retries
    /\ chunked_entries_task.pc = "fetching"
    /\ yielded = <<convertToNDGRComment(SegmentStream(SecondSegment(instance))[2])>>

\* The step in which the view driver reads a Segment entry.
C29_StartStep ==
    LET t == chunked_entries_task
        es == ViewSlice(lserver, instance, t.at, t.retry_count + 1)
    IN (/\ lpc = "running" /\ t.pc = "fetching" /\ t.pos < Len(es)
        /\ chunked_entries_task' = [t EXCEPT !.pos = t.pos + 1]
        /\ es[t.pos + 1].kind = "segment") =>
           LET u == es[t.pos + 1].uri
           IN /\ u \in DOMAIN active_segments'
              /\ u \notin DOMAIN active_segments =>
                    /\ \E tid \in DOMAIN segment_tasks' \ DOMAIN segment_tasks :
                          /\ segment_tasks'[tid] = NewWorker(u)
                          /\ active_segments'[u] = tid
                    /\ \A x \in DOMAIN segment_tasks :
                          x \in DOMAIN segment_tasks' /\ segment_tasks'[x] = segment_tasks[x]

\* C29: the step in which the view driver reads a Segment entry leaves the
\* segment's URI in active_segments, and when the URI was not there it creates
\* the worker in that same step, whatever workers are running at the time and
\* leaving them as they are; the entry's `from` is not consulted.
C29_Overlap == [][C29_StartStep]_vars

\* The workers of both segments of the plain server's program are running at
\* once, neither fetch having failed, and the stream has yielded a comment of
\* each of them.
C29_Witness ==
    /\ lserver = "plain" /\ lpc = "running" /\ faults = 0
    /\ DOMAIN active_segments = {FirstSegment(instance), SecondSegment(instance)}
    /\ Cardinality(DOMAIN segment_tasks) = 2
    /\ \E i \in 1..Len(yielded) :
          yielded[i] = convertToNDGRComment(SegmentStream(FirstSegment(instance))[1])
    /\ \E i \in 1..Len(yielded) :
          yielded[i] = convertToNDGRComment(SegmentStream(SecondSegment(instance))[2])

-----------------------------------------------------------------------------
(* The admission tests of the two paths, on the same messages (SpecAdmit).  *)

\* The ChunkedMessages a server can send, by the fields HasField reports:
\* message holds chat, overflowed_chat, both or neither, and a chat holds its
\* modifier or not.
SentMessages(id) ==
    { [ id |-> id,
        at |-> [seconds |-> 100 + id, nanos |-> 0],
        hasMeta |-> meta,
        hasMessage |-> message,
        hasChat |-> c,
        hasOverflowed |-> o,
        chatModifier |-> cm,
        overflowedModifier |-> om ] :
      meta \in BOOLEAN, message \in BOOLEAN, c \in BOOLEAN, o \in BOOLEAN,
      cm \in BOOLEAN, om \in BOOLEAN }

\* What HasField can report of one message: no chat without message, no
\* modifier without its chat.
IsWellFormed(m) ==
    /\ (m.hasChat \/ m.hasOverflowed) => m.hasMessage
    /\ m.chatModifier => m.hasChat
    /\ m.overflowedModifier => m.hasOverflowed

\* The sequences of at most MaxSent messages, the i-th with meta.id i.
SentSequences ==
    UNION { { q \in [1..n -> UNION {SentMessages(i) : i \in 1..n}] :
                \A i \in 1..n : q[i].id = i /\ IsWellFormed(q[i]) } :
            n \in 0..MaxSent }

InitAdmit ==
    /\ ReaderIdle /\ BackIdle /\ LiveIdle /\ ConstructIdle /\ ResolveIdle /\ HandshakeIdle /\ MonitorIdle /\ LoopIdle
    /\ sent \in SentSequences
    /\ live_read = 0 /\ live_yielded = <<>>
    /\ packed_read = 0 /\ temp_comments = <<>>

\* One round of `async for chunked_message in fetchProtobufStream(...)` in
\* fetchChunkedMessages: `continue`, or the converted comment is yielded.
LiveAdmit ==
    /\ UNCHANGED otherThanAdmit
    /\ live_read < Len(sent)
    /\ live_read' = live_read + 1
    /\ live_yielded' =
          IF IsIgnored(sent[live_read + 1]) THEN live_yielded
          ELSE Append(live_yielded, convertToNDGRComment(sent[live_read + 1]))
    /\ UNCHANGED <<sent, packed_read, temp_comments>>

\* One round of `for chunked_message in packed_segment.messages` in
\* downloadBackwardComments: `continue`, or the converted comment is appended
\* to temp_comments.
PackedAdmit ==
    /\ UNCHANGED otherThanAdmit
    /\ packed_read < Len(sent)
    /\ packed_read' = packed_read + 1
    /\ temp_comments' = temp_comments \o TempComments(<<sent[packed_read + 1]>>)
    /\ UNCHANGED <<sent, live_read, live_yielded>>

NextAdmit == LiveAdmit \/ PackedAdmit

SpecAdmit == InitAdmit /\ [][NextAdmit]_vars

\* The admissible messages, as the specification words them.
C30_Admissible(m) ==
    /\ m.hasMeta /\ m.hasMessage
    /\ m.hasChat \/ m.hasOverflowed
    /\ IF m.hasChat THEN m.chatModifier ELSE m.overflowedModifier

\* C30: a message is admissible when it has meta and message, has chat or
\* overflowed_chat, and the chosen chat (chat when present, else
\* overflowed_chat) has its modifier. Of the messages read so far, either path
\* has produced the comments of the admissible ones, in order, and nothing
\* else; an inadmissible message raises nothing and ends neither loop, the
\* next round being possible while a message is left.
C30_SameAdmission ==
    LET RECURSIVE Comments(_, _)
        Comments(q, n) ==
            IF n = 0 THEN <<>>
            ELSE IF C30_Admissible(q[n])
                 THEN Append(Comments(q, n - 1), convertToNDGRComment(q[n]))
                 ELSE Comments(q, n - 1)
    IN /\ live_yielded = Comments(sent, live_read)
       /\ temp_comments = Comments(sent, packed_read)
       /\ live_read = packed_read => live_yielded = temp_comments
       /\ live_read < Len(sent) => ENABLED LiveAdmit
       /\ packed_read < Len(sent) => ENABLED PackedAdmit

\* Both paths have read a chat without modifier followed by an overflowed_chat
\* with one: each has skipped the first and holds the comment of the second.
C30_Witness ==
    /\ Len(sent) = 2 /\ live_read = 2 /\ packed_read = 2
    /\ sent[1].hasMeta /\ sent[1].hasMessage /\ sent[1].hasChat /\ ~sent[1].chatModifier
    /\ sent[2].hasMeta /\ sent[2].hasMessage /\ ~sent[2].hasChat
    /\ sent[2].hasOverflowed /\ sent[2].overflowedModifier
    /\ live_yielded = <<convertToNDGRComment(sent[2])>>
    /\ temp_comments = live_yielded

\* C31 (as claimed): the comment queue is bounded, a put that would exceed the
\* capacity waiting for the supervisor to take a comment: whatever the caller
\* does, the queue never holds more than the capacity, here TestedCapacity.
C31_QueueBounded == Len(comment_queue) <= TestedCapacity

\* The instance whose `finally` is entered next: the one the consumer has
\* left, or the running one.
C32_Instance == IF prior.pending THEN prior ELSE Left("cancel")

\* From the cancel() calls of a `finally` to the return of its gather: every
\* worker of the instance is one the `finally` cancelled, and the view driver
\* and the monitor are over or about to receive their CancelledError.
C32_WhileCancelling ==
    prior.cancelling =>
        /\ DOMAIN prior.tasks \subseteq prior.cancelled
        /\ prior.must_cancel \/ IsOver(prior.driver)
        /\ prior.mon_cancel \/ MonitorOver(prior.monitor)

\* The steps of a teardown: the cancel() calls reach the view driver, the
\* monitor and every worker of active_segments; until the gather returns no
\* worker is created, none goes on and the monitor polls no more; the gather
\* returns with every task over, and streamComments gets nothing from it but
\* the CancelledError of a consumer that was cancelled.
C32_TeardownStep ==
    /\ (~prior.cancelling /\ prior'.cancelling) =>
          /\ prior'.cancelled =
                {C32_Instance.active[u] : u \in DOMAIN C32_Instance.active}
          /\ prior'.cancelled = DOMAIN C32_Instance.tasks
          /\ prior'.tasks = C32_Instance.tasks
          /\ prior'.must_cancel = ~IsOver(C32_Instance.driver)
          /\ prior'.mon_cancel = ~MonitorOver(C32_Instance.monitor)
    /\ (prior.cancelling /\ prior'.cancelling) =>
          /\ DOMAIN prior'.tasks \subseteq DOMAIN prior.tasks
          /\ \A t \in DOMAIN prior'.tasks : prior'.tasks[t] = prior.tasks[t]
          /\ DOMAIN prior'.active \subseteq DOMAIN prior.active
          /\ prior'.monitor \in {prior.monitor, "cancelled"}
    /\ (prior.cancelling /\ ~prior'.cancelling) =>
          /\ prior'.tasks = <<>> /\ ~prior'.pending
          /\ IsOver(prior'.driver) /\ MonitorOver(prior'.monitor)
          /\ IF prior.why = "cancel"
             THEN lpc' = "raised" /\ liveErr' = "CancelledError"
             ELSE lpc' = lpc /\ liveErr' = liveErr

\* C32: when the teardown of a supervisor instance runs, whether the instance
\* signalled ENDED or RESTART, the consumer closed the stream at a comment or
\* the consumer was cancelled in the wait, its view driver, its monitor and
\* every segment worker active at that moment are cancelled, no worker is
\* started afterwards, the teardown completes only when all of them are over,
\* and nothing they raised reaches the caller.
C32_CancellationPropagates == []C32_WhileCancelling /\ [][C32_TeardownStep]_vars

\* A teardown has completed after the consumer closed the stream: it cancelled
\* two running workers, a view driver in the middle of a slice and the
\* monitor between two polls.
C32_Witness ==
    /\ ~prior.pending /\ prior.why = "close" /\ lpc = "closed"
    /\ Cardinality(prior.cancelled) = 2 /\ prior.unbegun = {}
    /\ prior.driver.pc = "cancelled" /\ prior.monitor = "cancelled"
    /\ prior.tasks = <<>> /\ liveErr = NoRaise

\* C33 (as claimed): while the teardown of a finished instance has not
\* completed, the successor has not resolved its ProgramInfo nor opened a
\* connection and streamComments has not returned, and no task of a successor
\* exists: streamComments is at the start of the next instance.
C33_TeardownBeforeHandoff ==
    (prior.pending /\ prior.why = "signal") =>
        /\ lpc = "start"
        /\ chunked_entries_task = prior.driver
        /\ segment_tasks = <<>>

-----------------------------------------------------------------------------
(* fetchNicoLiveProgramInfo (SpecResolve).                                  *)

\* program.endTime of the watch pages of the model, and `5 * 60`.
EndTime == 1000
FallbackDelay == 300

\* The programs a watch page can show: nicoliveProgramId 1 is the one the
\* handle leads to first, 2 another one.
ProgramInfos(program) ==
    [status : {"ON_AIR", "ENDED"}, hasUrl : BOOLEAN, program : {program},
     endTime : {EndTime}]

\* What fetch_program_info_from_watch_page can come to: the GET raises or is
\* answered with an error status (raise_for_status), the page does not parse
\* (assert), or a ProgramInfo.
WatchPageOutcomes(program) ==
    {[raised |-> TransportError, info |-> NoProgramInfo],
     [raised |-> "HTTPStatusError", info |-> NoProgramInfo],
     [raised |-> "AssertionError", info |-> NoProgramInfo]} \cup
    {[raised |-> NoRaise, info |-> i] : i \in ProgramInfos(program)}

\* What the channel page can come to: the GET raises or fails, no #live_now div, no
\* link to a watch page in it, or a link whose last path segment is a live id:
\* that of the program already fetched, another one, or empty.
EmptyLv == -1
ChannelPageOutcomes ==
    {[raised |-> TransportError, div |-> FALSE, link |-> FALSE, lv |-> NoLv],
     [raised |-> "HTTPStatusError", div |-> FALSE, link |-> FALSE, lv |-> NoLv],
     [raised |-> NoRaise, div |-> FALSE, link |-> FALSE, lv |-> NoLv],
     [raised |-> NoRaise, div |-> TRUE, link |-> FALSE, lv |-> NoLv]} \cup
    {[raised |-> NoRaise, div |-> TRUE, link |-> TRUE, lv |-> l] : l \in {1, 2, EmptyLv}}

\* The changes of the cookie jar one call of fetchNicoLiveProgramInfo sees.
MaxLogins == 2

InitResolve ==
    /\ ReaderIdle /\ BackIdle /\ LiveIdle /\ ConstructIdle /\ AdmitIdle /\ HandshakeIdle /\ MonitorIdle /\ LoopIdle
    /\ npc = "start"
    /\ nicolive_id_is_ch \in BOOLEAN /\ n_is_logged_in \in BOOLEAN
    /\ logged_in_read = "unread" /\ login_calls = 0
    /\ now \in {EndTime + FallbackDelay, EndTime + FallbackDelay + 1}
    /\ program_info = NoProgramInfo /\ first_program_info = NoProgramInfo
    /\ current_lv_id = NoLv /\ requests = <<>> /\ swallowed = FALSE
    /\ nerr = NoRaise

\* A plausible slip: the channel page is consulted from the 300th second on.
FallbackAppliesFromFiveMinutes(info, t, is_ch) ==
    info.status = "ENDED" /\ t >= info.endTime + FallbackDelay /\ is_ch

\* The condition of the fallback: ENDED, more than five minutes past endTime,
\* and the handle is a channel id.
FallbackApplies(info, t, is_ch) ==
    info.status = "ENDED" /\ t > info.endTime + FallbackDelay /\ is_ch

\* Where fetchNicoLiveProgramInfo goes once the fallback is over.
AfterFallback == "timeshift"

\* `program_info = await fetch_program_info_from_watch_page(initial_watch_page_url)`
FetchInitialWatchPage ==
    /\ UNCHANGED otherThanResolve
    /\ npc = "start"
    /\ \E o \in WatchPageOutcomes(1) :
          /\ requests' = Append(requests, [op |-> "GET watch", result |-> o.raised])
          /\ IF o.raised # NoRaise
             THEN /\ npc' = "raised" /\ nerr' = o.raised
                  /\ UNCHANGED <<program_info, first_program_info>>
             ELSE /\ program_info' = o.info /\ first_program_info' = o.info
                  /\ npc' = IF FallbackApplies(o.info, now, nicolive_id_is_ch)
                            THEN "fallback" ELSE AfterFallback
                  /\ nerr' = nerr
    /\ UNCHANGED <<nicolive_id_is_ch, n_is_logged_in, logged_in_read, login_calls, now, current_lv_id, swallowed>>

\* The `try` of the fallback up to the test of current_lv_id: the channel page
\* is requested and the link of #live_now read; a failure is caught by
\* `except Exception`.
FetchChannelPage ==
    /\ UNCHANGED otherThanResolve
    /\ npc = "fallback"
    /\ \E o \in ChannelPageOutcomes :
          /\ requests' = Append(requests, [op |-> "GET channel", result |-> o.raised])
          /\ swallowed' = (swallowed \/ o.raised # NoRaise)
          /\ current_lv_id' = IF o.link THEN o.lv ELSE current_lv_id
          /\ npc' = IF o.link /\ o.lv # EmptyLv /\ o.lv # program_info.program
                    THEN "fallback_watch" ELSE AfterFallback
    /\ UNCHANGED <<nicolive_id_is_ch, n_is_logged_in, logged_in_read, login_calls, now, program_info,
                   first_program_info, nerr>>

\* `program_info = await fetch_program_info_from_watch_page(fallback_watch_page_url)`
\* inside the `try`: the assignment happens only when the call returns.
FetchFallbackWatchPage ==
    /\ UNCHANGED otherThanResolve
    /\ npc = "fallback_watch"
    /\ \E o \in WatchPageOutcomes(current_lv_id) :
          /\ requests' = Append(requests, [op |-> "GET watch lv", result |-> o.raised])
          /\ swallowed' = (swallowed \/ o.raised # NoRaise)
          /\ program_info' = IF o.raised # NoRaise THEN program_info ELSE o.info
    /\ npc' = AfterFallback
    /\ UNCHANGED <<nicolive_id_is_ch, n_is_logged_in, logged_in_read, login_calls, now, first_program_info,
                   current_lv_id, nerr>>

\* What the condition of the timeshift activation reads of self.is_logged_in:
\* `and` reaches the property only when the two tests before it hold.
ReadOfLogin(info, logged_in) ==
    IF info.status = "ENDED" /\ ~info.hasUrl
    THEN (IF logged_in THEN "yes" ELSE "no") ELSE "unread"

\* A plausible slip: the answer to the reservation is not looked at.
ReserveAcceptedAlways(r) == TRUE

\* `status_code != 200 and errorCode != 'DUPLICATED'` raises.
ReserveAccepted(r) == r \in {"200", "DUPLICATED"}

\* The test of the timeshift activation holds: self.is_logged_in has been read
\* and the timeshift reservation (POST) is sent.
ReserveTimeshift ==
    /\ UNCHANGED otherThanResolve
    /\ npc = "timeshift" /\ TimeshiftApplies(program_info, n_is_logged_in)
    /\ logged_in_read' = ReadOfLogin(program_info, n_is_logged_in)
    /\ npc' = "reserve"
    /\ UNCHANGED <<nicolive_id_is_ch, n_is_logged_in, login_calls, now, program_info,
                   first_program_info, current_lv_id, requests, swallowed, nerr>>

\* The reservation is answered, or the POST raises; an accepted reservation
\* sends the start of timeshift viewing (PATCH).
ReserveAnswered ==
    /\ UNCHANGED otherThanResolve
    /\ npc = "reserve"
    /\ \E r \in {"200", "DUPLICATED", "403", TransportError} :
          /\ requests' = Append(requests, [op |-> "POST", result |-> r])
          /\ IF r = TransportError
             THEN npc' = "raised" /\ nerr' = TransportError
             ELSE IF ReserveAccepted(r)
             THEN npc' = "patch" /\ nerr' = nerr
             ELSE npc' = "raised" /\ nerr' = "ValueError"
    /\ UNCHANGED <<nicolive_id_is_ch, n_is_logged_in, logged_in_read, login_calls, now,
                   program_info, first_program_info, current_lv_id, swallowed>>

\* The PATCH is answered, or raises; answered 200, the watch page is
\* requested again.
StartTimeshiftWatching ==
    /\ UNCHANGED otherThanResolve
    /\ npc = "patch"
    /\ \E r \in {"200", "403", TransportError} :
          /\ requests' = Append(requests, [op |-> "PATCH", result |-> r])
          /\ IF r = TransportError
             THEN npc' = "raised" /\ nerr' = TransportError
             ELSE IF r = "200"
             THEN npc' = "refetch" /\ nerr' = nerr
             ELSE npc' = "raised" /\ nerr' = "ValueError"
    /\ UNCHANGED <<nicolive_id_is_ch, n_is_logged_in, logged_in_read, login_calls, now, program_info,
                   first_program_info, current_lv_id, swallowed>>

\* The watch page of program_info.nicoliveProgramId is read again; a URL that
\* is still empty raises.
RefetchWatchPage ==
    /\ UNCHANGED otherThanResolve
    /\ npc = "refetch"
    /\ \E o \in WatchPageOutcomes(program_info.program) :
          /\ requests' = Append(requests, [op |-> "GET watch again", result |-> o.raised])
          /\ IF o.raised # NoRaise
             THEN npc' = "raised" /\ nerr' = o.raised /\ program_info' = program_info
             ELSE /\ program_info' = o.info
                  /\ IF o.info.hasUrl
                     THEN npc' = "returned" /\ nerr' = nerr
                     ELSE npc' = "raised" /\ nerr' = "ValueError"
    /\ UNCHANGED <<nicolive_id_is_ch, n_is_logged_in, logged_in_read, login_calls, now, first_program_info,
                   current_lv_id, swallowed>>

\* `return program_info`, the timeshift activation not applying.
ReturnProgramInfo ==
    /\ UNCHANGED otherThanResolve
    /\ npc = "timeshift" /\ ~TimeshiftApplies(program_info, n_is_logged_in)
    /\ logged_in_read' = ReadOfLogin(program_info, n_is_logged_in)
    /\ npc' = "returned"
    /\ UNCHANGED <<nicolive_id_is_ch, n_is_logged_in, login_calls, now, program_info,
                   first_program_info, current_lv_id, requests, swallowed, nerr>>

\* login() of the same client while fetchNicoLiveProgramInfo is suspended at an
\* await: `cookies.set` of login(cookies=...) or the Set-Cookie of the answer
\* to the login POST puts user_session into the cookie jar.
LoginSetsCookie ==
    /\ UNCHANGED otherThanResolve
    /\ npc \notin {"returned", "raised"} /\ ~n_is_logged_in
    /\ login_calls < MaxLogins
    /\ n_is_logged_in' = TRUE /\ login_calls' = login_calls + 1
    /\ UNCHANGED <<npc, nicolive_id_is_ch, logged_in_read, now, program_info,
                   first_program_info, current_lv_id, requests, swallowed, nerr>>

\* `self.httpx_client.cookies.clear()` of login(mail, password).
LoginClearsCookies ==
    /\ UNCHANGED otherThanResolve
    /\ npc \notin {"returned", "raised"} /\ n_is_logged_in
    /\ login_calls < MaxLogins
    /\ n_is_logged_in' = FALSE /\ login_calls' = login_calls + 1
    /\ UNCHANGED <<npc, nicolive_id_is_ch, logged_in_read, now, program_info,
                   first_program_info, current_lv_id, requests, swallowed, nerr>>

NextResolve ==
    \/ FetchInitialWatchPage \/ FetchChannelPage \/ FetchFallbackWatchPage
    \/ ReserveTimeshift \/ ReserveAnswered \/ StartTimeshiftWatching
    \/ RefetchWatchPage \/ ReturnProgramInfo
    \/ LoginSetsCookie \/ LoginClearsCookies

SpecResolve == InitResolve /\ [][NextResolve]_vars

\* The requests of one kind among those sent.
C34_Sent(op) == {i \in 1..Len(requests) : requests[i].op = op}

\* C34: the channel page is requested only when the first watch page showed
\* ENDED, now is more than 300 s past its endTime and the handle is a channel
\* id. A failure inside the fallback raises nothing and leaves the ProgramInfo
\* of the first watch page in place; up to the timeshift activation the
\* ProgramInfo differs from the first one only when the channel page linked a
\* live id other than the first program's and the watch page of that id was
\* fetched successfully.
C34_FallbackContained ==
    /\ C34_Sent("GET channel") # {} =>
          /\ first_program_info.status = "ENDED"
          /\ now > first_program_info.endTime + 300
          /\ nicolive_id_is_ch
    /\ (npc \in {"fallback", "fallback_watch"} \/ (npc = "timeshift" /\ swallowed)) =>
          /\ nerr = NoRaise
          /\ program_info = first_program_info
    /\ \A i \in 1..Len(requests) :
          (requests[i].op \in {"GET channel", "GET watch lv"} /\ npc = "raised")
              => i < Len(requests)
    /\ (program_info # first_program_info /\ C34_Sent("GET watch again") = {}) =>
          /\ current_lv_id \notin {NoLv, EmptyLv, first_program_info.program}
          /\ program_info.program = current_lv_id
          /\ \E i \in 1..Len(requests) :
                requests[i] = [op |-> "GET watch lv", result |-> NoRaise]
          /\ ~swallowed

\* The channel page linked another live id, the watch page of that id failed
\* to load, and fetchNicoLiveProgramInfo has returned the ProgramInfo of the
\* first watch page.
C34_Witness ==
    /\ npc = "returned" /\ swallowed
    /\ current_lv_id = 2
    /\ Len(requests) = 3 /\ requests[3].op = "GET watch lv" /\ requests[3].result # NoRaise
    /\ program_info = first_program_info /\ program_info.status = "ENDED"

\* C35: a session that the test of the timeshift activation found logged in
\* and that is returned an ENDED ProgramInfo is returned one with a WebSocket
\* URL: an ENDED ProgramInfo without URL is returned only when that test read
\* a session that is not logged in. The PATCH follows at once on a POST that
\* was answered 200 or DUPLICATED; a rejected POST, a PATCH not answered 200
\* and a URL still empty on the watch page read again raise. A session the
\* test did not find logged in sends neither POST nor PATCH and raises only
\* what the first watch page raised, an empty URL being returned as it is.
C35_TimeshiftPostcondition ==
    /\ (npc = "returned" /\ logged_in_read = "yes" /\ program_info.status = "ENDED")
          => program_info.hasUrl
    /\ (npc = "returned" /\ program_info.status = "ENDED" /\ ~program_info.hasUrl)
          => logged_in_read = "no"
    /\ \A i \in 1..Len(requests) :
          /\ requests[i].op = "PATCH" =>
                /\ i > 1 /\ requests[i - 1].op = "POST"
                /\ requests[i - 1].result \in {"200", "DUPLICATED"}
          /\ (requests[i].op = "POST" /\ requests[i].result \notin {"200", "DUPLICATED"})
                => /\ i = Len(requests) /\ npc = "raised"
                   /\ nerr = (IF requests[i].result = TransportError
                              THEN TransportError ELSE "ValueError")
          /\ (requests[i].op = "PATCH" /\ requests[i].result # "200")
                => /\ i = Len(requests) /\ npc = "raised"
                   /\ nerr = (IF requests[i].result = TransportError
                              THEN TransportError ELSE "ValueError")
          /\ (requests[i].op = "GET watch again" /\ requests[i].result = NoRaise
                 /\ ~program_info.hasUrl)
                => (npc = "raised" /\ nerr = "ValueError")
    /\ logged_in_read # "yes" =>
          /\ \A i \in 1..Len(requests) : requests[i].op \notin {"POST", "PATCH"}
          /\ npc = "raised" => Len(requests) = 1
    /\ (npc = "timeshift" /\ ~n_is_logged_in) => ENABLED ReturnProgramInfo

\* A session found logged in has been returned an ENDED ProgramInfo with a URL
\* after a reservation answered DUPLICATED, a PATCH answered 200 and a second
\* look at the watch page.
C35_Witness ==
    /\ npc = "returned" /\ logged_in_read = "yes"
    /\ program_info.status = "ENDED" /\ program_info.hasUrl
    /\ ~first_program_info.hasUrl
    /\ \E i \in 1..Len(requests) : requests[i] = [op |-> "POST", result |-> "DUPLICATED"]
    /\ requests[Len(requests)].op = "GET watch again"

-----------------------------------------------------------------------------
(* fetchNDGRViewURI (SpecHandshake).                                        *)

\* The i-th frame the server sends: a JSON object of type messageServer with
\* data.viewUri, one of another type, one without a "type" key, or a frame
\* that is no JSON.
WsFrames(i) ==
    {[type |-> "messageServer", viewUri |-> i],
     [type |-> "seat", viewUri |-> NoUri],
     [type |-> "absent", viewUri |-> NoUri],
     [type |-> "nojson", viewUri |-> NoUri]}

WsFrameSequences ==
    UNION { { q \in [1..n -> UNION {WsFrames(i) : i \in 1..n}] :
                \A i \in 1..n : q[i] \in WsFrames(i) } :
            n \in 0..MaxWsFrames }

InitHandshake ==
    /\ ReaderIdle /\ BackIdle /\ LiveIdle /\ ConstructIdle /\ AdmitIdle /\ ResolveIdle /\ MonitorIdle /\ LoopIdle
    /\ wpc = "start" /\ webSocketUrl \in {"", "wss"}
    /\ ws_frames \in WsFrameSequences /\ ws_read = 0
    /\ ws_log = <<>> /\ view_uri = NoUri /\ werr = NoRaise

\* `if webSocketUrl == '': raise ValueError`, else websockets.connect, which
\* may fail.
HandshakeConnect ==
    /\ UNCHANGED otherThanHandshake
    /\ wpc = "start"
    /\ IF webSocketUrl = ""
       THEN wpc' = "raised" /\ werr' = "ValueError" /\ ws_log' = ws_log
       ELSE /\ ws_log' = Append(ws_log, "connect")
            /\ \/ wpc' = "connected" /\ werr' = werr
               \/ wpc' = "raised" /\ werr' = "ConnectError"
    /\ UNCHANGED <<webSocketUrl, ws_frames, ws_read, view_uri>>

\* `await websocket.send(startWatching)`
HandshakeSend ==
    /\ UNCHANGED otherThanHandshake
    /\ wpc = "connected"
    /\ ws_log' = Append(ws_log, "send startWatching")
    /\ wpc' = "receiving"
    /\ UNCHANGED <<webSocketUrl, ws_frames, ws_read, view_uri, werr>>

\* A plausible slip: the first frame is taken for the answer whatever its type.
IsMessageServerAny(f) == TRUE

\* `if data['type'] == 'messageServer'`
IsMessageServer(f) == f.type = "messageServer"

\* One round of the receive loop: recv() raises ConnectionClosed when the
\* server has closed the socket, json.loads raises JSONDecodeError on a frame
\* that is no JSON, data['type'] raises KeyError on a frame without the key,
\* a messageServer frame gives view_uri and ends the loop at the close(), any
\* other frame is passed over.
HandshakeRecv ==
    /\ UNCHANGED otherThanHandshake
    /\ wpc = "receiving"
    /\ IF ws_read = Len(ws_frames)
       THEN /\ wpc' = "raised" /\ werr' = "ConnectionClosed"
            /\ UNCHANGED <<ws_read, ws_log, view_uri>>
       ELSE LET f == ws_frames[ws_read + 1]
            IN /\ ws_read' = ws_read + 1
               /\ ws_log' = Append(ws_log, "recv")
               /\ IF f.type = "nojson"
                  THEN wpc' = "raised" /\ werr' = "JSONDecodeError" /\ view_uri' = view_uri
                  ELSE IF f.type = "absent"
                  THEN wpc' = "raised" /\ werr' = "KeyError" /\ view_uri' = view_uri
                  ELSE IF IsMessageServer(f)
                  THEN wpc' = "closing" /\ werr' = werr /\ view_uri' = f.viewUri
                  ELSE wpc' = wpc /\ werr' = werr /\ view_uri' = view_uri
    /\ UNCHANGED <<webSocketUrl, ws_frames>>

\* `await websocket.close()` and `return view_uri`
HandshakeClose ==
    /\ UNCHANGED otherThanHandshake
    /\ wpc = "closing"
    /\ ws_log' = Append(ws_log, "close")
    /\ wpc' = "returned"
    /\ UNCHANGED <<webSocketUrl, ws_frames, ws_read, view_uri, werr>>

NextHandshake ==
    HandshakeConnect \/ HandshakeSend \/ HandshakeRecv \/ HandshakeClose

SpecHandshake == InitHandshake /\ [][NextHandshake]_vars

\* C36: with an empty URL fetchNDGRViewURI raises and nothing is done on a
\* socket. Otherwise what is done is: connect, one startWatching frame, then
\* the reads; every frame read before the end that has a type other than
\* messageServer is passed over without an error; a return gives the viewUri
\* of the first messageServer frame, after a close; and once the server has
\* closed the socket with no messageServer frame among well-formed frames,
\* ConnectionClosed is raised and no URI is returned.
C36_Handshake ==
    /\ webSocketUrl = "" =>
          /\ ws_log = <<>> /\ view_uri = NoUri
          /\ wpc \in {"start", "raised"}
          /\ wpc = "raised" => werr = "ValueError"
    /\ \A i \in 1..Len(ws_log) :
          /\ i = 1 <=> ws_log[i] = "connect"
          /\ i = 2 <=> ws_log[i] = "send startWatching"
          /\ ws_log[i] = "close" => (i = Len(ws_log) /\ wpc = "returned")
    /\ wpc \in {"receiving", "closing", "returned", "raised"}
          /\ werr \notin {"ValueError", "ConnectError"}
          => Len(ws_log) >= 2
    /\ \A i \in 1..ws_read :
          (ws_frames[i].type \notin {"messageServer", "absent", "nojson"}) =>
              \/ i < ws_read
              \/ wpc = "receiving" /\ werr = NoRaise
              \/ werr = "ConnectionClosed"
    /\ wpc \in {"closing", "returned"} <=> view_uri # NoUri
    /\ wpc \in {"closing", "returned"} =>
          /\ ws_frames[ws_read].type = "messageServer"
          /\ view_uri = ws_frames[ws_read].viewUri
          /\ \A i \in 1..(ws_read - 1) : ws_frames[i].type # "messageServer"
    /\ wpc = "closing" => ENABLED HandshakeClose
    /\ wpc = "returned" => ws_log[Len(ws_log)] = "close"
    /\ (wpc = "receiving" /\ ws_read = Len(ws_frames)) =>
          /\ ENABLED HandshakeRecv
          /\ \A i \in 1..Len(ws_frames) : ws_frames[i].type = "seat"
    /\ werr = "ConnectionClosed" =>
          /\ wpc = "raised" /\ view_uri = NoUri /\ ws_read = Len(ws_frames)
          /\ \A i \in 1..Len(ws_frames) : ws_frames[i].type # "messageServer"

\* A frame of another type has been passed over and the viewUri of the first
\* of two messageServer frames returned.
C36_Witness ==
    /\ wpc = "returned" /\ Len(ws_frames) = 3
    /\ ws_frames[1].type = "seat"
    /\ ws_frames[2].type = "messageServer" /\ ws_frames[3].type = "messageServer"
    /\ view_uri = ws_frames[2].viewUri
    /\ ws_log = <<"connect", "send startWatching", "recv", "recv", "close">>

-----------------------------------------------------------------------------
(* fetch_program_info beside the main loop (SpecMonitor).                   *)

\* stream_comments_inner has started on program 1: its ProgramInfo was not
\* ENDED and had a WebSocket URL.
InitMonitor ==
    /\ ReaderIdle /\ BackIdle /\ LiveIdle /\ ConstructIdle /\ AdmitIdle /\ ResolveIdle /\ LoopIdle
    /\ HandshakeIdle
    /\ mon_pc = "sleeping" /\ mon_jk \in BOOLEAN /\ mon_logged_in \in BOOLEAN
    /\ nicolive_program_info = [status |-> "ON_AIR", hasUrl |-> TRUE, program |-> 1]
    /\ polls = <<>> /\ mon_result = "none" /\ stream_pc = "running" /\ serr = NoRaise

\* A plausible slip: the handler of the monitor re-raises what it has printed.
MonitorExceptReraises(e) == e

\* `except Exception:` of fetch_program_info: the error is printed and the
\* loop goes round.
MonitorExcept(e) == NoRaise

\* fetchNicoLiveProgramInfo of a round has come to `res`: a return of ENDED or
\* RESTART, the update of nicolive_program_info, or the `except`.
MonitorResolves(res) ==
    LET signal == IF res.raised # NoRaise THEN "polling"
                  ELSE MonitorSignal(mon_jk, res.info,
                                     nicolive_program_info.program)
        after == IF res.raised = NoRaise /\ signal = "polling"
                 THEN res.info ELSE nicolive_program_info
        raises == IF res.raised # NoRaise THEN MonitorExcept(res.raised)
                  ELSE NoRaise
    IN /\ polls' = Append(polls, [res |-> res, signal |-> signal,
                                  before |-> nicolive_program_info,
                                  after |-> after])
       /\ nicolive_program_info' = after
       /\ mon_pc' = IF raises # NoRaise THEN "failed"
                    ELSE IF signal # "polling" THEN "returned"
                    ELSE "sleeping"
       /\ mon_result' = IF signal # "polling" THEN signal ELSE mon_result
       /\ serr' = IF raises # NoRaise THEN raises ELSE serr

\* One round of the `while True` of fetch_program_info up to the test of the
\* timeshift activation: the sleep to second 5 of the next minute and the
\* request for the watch page. The page of an ENDED program without URL makes
\* a session that is logged in now send the timeshift reservation; any other
\* page, and a failed request, end the round.
MonitorRound ==
    /\ UNCHANGED otherThanMonitor
    /\ mon_pc = "sleeping" /\ stream_pc = "running" /\ Len(polls) < MaxPolls
    /\ \E res \in WatchPageReads({1, 2}) :
          IF res.raised = NoRaise /\ TimeshiftApplies(res.info, mon_logged_in)
          THEN /\ mon_pc' = "timeshift"
               /\ UNCHANGED <<nicolive_program_info, polls, mon_result, serr>>
          ELSE MonitorResolves(res)
    /\ UNCHANGED <<mon_jk, mon_logged_in, stream_pc>>

\* The timeshift activation of a round comes to its end, whatever
\* self.is_logged_in has become since the test. Which of the programs the
\* page showed is drawn here, nothing having depended on it before.
MonitorRoundTimeshift ==
    /\ UNCHANGED otherThanMonitor
    /\ mon_pc = "timeshift" /\ stream_pc = "running"
    /\ \E p \in {1, 2} : \E res \in TimeshiftResolutions(p) : MonitorResolves(res)
    /\ UNCHANGED <<mon_jk, mon_logged_in, stream_pc>>

\* The main loop finds program_info_task done: task.result() is yielded, or
\* raises what the task raised; streamComments returns on ENDED and starts
\* over on RESTART.
MonitorDone ==
    /\ UNCHANGED otherThanMonitor
    /\ stream_pc = "running" /\ mon_pc \in {"returned", "failed"}
    /\ stream_pc' = IF mon_pc = "failed" THEN "raised"
                    ELSE IF mon_result = "ENDED" THEN "returned" ELSE "restart"
    /\ UNCHANGED <<mon_pc, mon_jk, mon_logged_in, nicolive_program_info, polls,
                   mon_result, serr>>

\* login() of the same client, between two polls, at an await of one or
\* after the last: user_session enters the cookie jar (`cookies.set`, or the
\* answer to the login POST) or leaves it (`cookies.clear()`).
MonitorLogin ==
    /\ UNCHANGED otherThanMonitor
    /\ mon_logged_in' = ~mon_logged_in
    /\ UNCHANGED <<mon_pc, mon_jk, nicolive_program_info, polls, mon_result,
                   stream_pc, serr>>

NextMonitor == MonitorRound \/ MonitorRoundTimeshift \/ MonitorDone \/ MonitorLogin

SpecMonitor == InitMonitor /\ [][NextMonitor]_vars

\* C37: a poll whose fetchNicoLiveProgramInfo raised emits no signal and
\* leaves the tracked ProgramInfo as it was; after it the monitor is asleep
\* until its next poll, or inside that poll, which can complete, and the main
\* loop runs on, nothing being raised. The
\* tracked ProgramInfo changes only in a poll that resolved and emitted no
\* signal, and then to what that poll resolved.
C37_PollFailureContained ==
    /\ \A i \in 1..Len(polls) :
          /\ polls[i].res.raised # NoRaise =>
                /\ polls[i].signal = "polling"
                /\ polls[i].after = polls[i].before
                /\ i = Len(polls) =>
                      /\ mon_pc \in {"sleeping", "timeshift"} /\ stream_pc = "running"
                      /\ mon_result = "none" /\ serr = NoRaise
                      /\ (mon_pc = "sleeping" /\ Len(polls) < MaxPolls)
                            => ENABLED MonitorRound
                      /\ mon_pc = "timeshift" => ENABLED MonitorRoundTimeshift
          /\ polls[i].after # polls[i].before =>
                /\ polls[i].res.raised = NoRaise /\ polls[i].signal = "polling"
                /\ polls[i].after = polls[i].res.info
          /\ polls[i].before = IF i = 1
                               THEN [status |-> "ON_AIR", hasUrl |-> TRUE, program |-> 1]
                               ELSE polls[i - 1].after
    /\ polls # <<>> => nicolive_program_info = polls[Len(polls)].after
    /\ serr = NoRaise /\ stream_pc # "raised"

\* A poll has failed on the timeshift ValueError, the next one has resolved
\* and replaced the tracked ProgramInfo, and the stream is running.
C37_Witness ==
    /\ Len(polls) = 2 /\ stream_pc = "running" /\ mon_pc = "sleeping"
    /\ polls[1].res.raised = "ValueError"
    /\ polls[2].res.raised = NoRaise /\ polls[2].after # polls[2].before
    /\ nicolive_program_info = polls[2].res.info

\* C38: the monitor of a channel-bound (jk) client never returns ENDED: a
\* poll that resolves to status ENDED under the tracked program identifier
\* emits nothing, and while no poll has resolved to another identifier the
\* monitor is asleep between polls or inside a poll that can complete, and the
\* stream neither returns nor raises.
C38_ChannelNeverEnds ==
    mon_jk =>
        /\ mon_result # "ENDED" /\ stream_pc # "returned"
        /\ \A i \in 1..Len(polls) :
              (/\ polls[i].res.raised = NoRaise
               /\ polls[i].res.info.status = "ENDED"
               /\ polls[i].res.info.program = polls[i].before.program)
                  => polls[i].signal = "polling"
        /\ (\A i \in 1..Len(polls) :
                \/ polls[i].res.raised # NoRaise
                \/ polls[i].res.info.program = 1)
              => /\ mon_pc \in {"sleeping", "timeshift"} /\ stream_pc = "running"
                 /\ serr = NoRaise /\ mon_result = "none"
                 /\ (mon_pc = "sleeping" /\ Len(polls) < MaxPolls)
                       => ENABLED MonitorRound
                 /\ mon_pc = "timeshift" => ENABLED MonitorRoundTimeshift

\* The channel's program has ended with no successor: every poll of the jk
\* client has seen ENDED under the same identifier, and the stream runs on.
C38_Witness ==
    /\ mon_jk /\ Len(polls) = MaxPolls /\ stream_pc = "running"
    /\ \A i \in 1..Len(polls) :
          /\ polls[i].res.raised = NoRaise
          /\ polls[i].res.info.status = "ENDED"
          /\ polls[i].res.info.program = 1
    /\ nicolive_program_info.status = "ENDED"

-----------------------------------------------------------------------------
(* The main loop of stream_comments_inner and its `finally` (SpecLoop).     *)

LoopTask(kind) == [kind |-> kind, state |-> "pending", result |-> 0]

\* chunked_entries_task and program_info_task have been created, the view
\* driver has created one segment worker, which is in active_segments, and the
\* generator is suspended in the asyncio.wait of its first round.
InitLoop ==
    /\ ReaderIdle /\ BackIdle /\ LiveIdle /\ ConstructIdle /\ AdmitIdle /\ ResolveIdle
    /\ HandshakeIdle /\ MonitorIdle
    /\ loop_pc = "waiting"
    /\ loop_tasks = <<LoopTask("driver"), LoopTask("monitor"), LoopTask("worker"),
                      LoopTask("get")>>
    /\ loop_wait = {2, 4} /\ loop_done = {}
    /\ loop_queue = <<>> /\ loop_yielded = <<>> /\ loop_puts = 0

LoopPending(kind) ==
    {i \in DOMAIN loop_tasks :
        loop_tasks[i].kind = kind /\ loop_tasks[i].state = "pending"}

\* The generator is resumed at `yield comment` with nothing left in `done`:
\* comment_queue.task_done(), then the head of the next round,
\* asyncio.create_task(comment_queue.get()) and the call of asyncio.wait on it
\* and on program_info_task.
LoopCreate ==
    /\ UNCHANGED otherThanLoop
    /\ loop_pc = "yielded" /\ loop_done = {}
    /\ loop_tasks' = Append(loop_tasks, LoopTask("get"))
    /\ loop_wait' = {Len(loop_tasks) + 1} \cup
                    {i \in DOMAIN loop_tasks : loop_tasks[i].kind = "monitor"}
    /\ loop_pc' = "waiting"
    /\ UNCHANGED <<loop_done, loop_queue, loop_yielded, loop_puts>>

\* The segment worker puts a comment on the queue. A worker on which cancel()
\* was called takes no such step any more.
LoopWorkerPut ==
    /\ UNCHANGED otherThanLoop
    /\ loop_puts < MaxLoopPuts
    /\ LoopPending("worker") # {}
    /\ loop_queue' = Append(loop_queue, loop_puts + 1)
    /\ loop_puts' = loop_puts + 1
    /\ UNCHANGED <<loop_pc, loop_tasks, loop_wait, loop_done, loop_yielded>>

\* The segment worker reaches the end of its segment.
LoopWorkerEnd ==
    /\ UNCHANGED otherThanLoop
    /\ \E i \in LoopPending("worker") :
          loop_tasks' = [loop_tasks EXCEPT ![i].state = "done"]
    /\ UNCHANGED <<loop_pc, loop_wait, loop_done, loop_queue, loop_yielded, loop_puts>>

\* fetch_chunked_entries is over: a slice ended without `next`, or the third
\* attempt in a row failed and the `raise` left the task with its exception.
LoopDriverEnd ==
    /\ UNCHANGED otherThanLoop
    /\ \E i \in LoopPending("driver"), how \in {"done", "failed"} :
          loop_tasks' = [loop_tasks EXCEPT ![i].state = how]
    /\ UNCHANGED <<loop_pc, loop_wait, loop_done, loop_queue, loop_yielded, loop_puts>>

\* A pending comment_queue.get() takes the head of the queue and its task is
\* done, whether or not anything still waits for that task.
LoopGetCompletes ==
    /\ UNCHANGED otherThanLoop
    /\ loop_queue # <<>>
    /\ \E i \in LoopPending("get") :
          loop_tasks' = [loop_tasks EXCEPT ![i].state = "done",
                                           ![i].result = Head(loop_queue)]
    /\ loop_queue' = Tail(loop_queue)
    /\ UNCHANGED <<loop_pc, loop_wait, loop_done, loop_yielded, loop_puts>>

\* fetch_program_info() returns its signal.
LoopMonitorReturns ==
    /\ UNCHANGED otherThanLoop
    /\ \E i \in LoopPending("monitor") :
          loop_tasks' = [loop_tasks EXCEPT ![i].state = "done"]
    /\ UNCHANGED <<loop_pc, loop_wait, loop_done, loop_queue, loop_yielded, loop_puts>>

\* What `for task in done` does with a task, up to the `yield` it stops at:
\* the monitor's result is yielded, or the comment of the queue-get task.
LoopYield(i) ==
    IF loop_tasks[i].kind = "monitor"
    THEN [item |-> "signal", pc |-> "suspended"]
    ELSE [item |-> loop_tasks[i].result, pc |-> "yielded"]

\* asyncio.wait(..., return_when=FIRST_COMPLETED) returns the awaited tasks
\* that are done by then, and `for task in done` takes the first of them, in
\* the order the set gives, up to its `yield`.
LoopWaitReturns ==
    /\ UNCHANGED otherThanLoop
    /\ loop_pc = "waiting"
    /\ LET finished == {i \in loop_wait : loop_tasks[i].state = "done"}
       IN \E i \in finished :
             /\ loop_done' = finished \ {i}
             /\ loop_yielded' = Append(loop_yielded, LoopYield(i).item)
             /\ loop_pc' = LoopYield(i).pc
    /\ UNCHANGED <<loop_tasks, loop_wait, loop_queue, loop_puts>>

\* The generator is resumed at `yield comment` with a task left in `done`:
\* comment_queue.task_done(), then that task up to its `yield`.
LoopHandle ==
    /\ UNCHANGED otherThanLoop
    /\ loop_pc = "yielded"
    /\ \E i \in loop_done :
          /\ loop_done' = loop_done \ {i}
          /\ loop_yielded' = Append(loop_yielded, LoopYield(i).item)
          /\ loop_pc' = LoopYield(i).pc
    /\ UNCHANGED <<loop_tasks, loop_wait, loop_queue, loop_puts>>

\* cancel() on a task: nothing for a task that is over; a pending task is
\* thrown CancelledError at its next step.
LoopCancel(task) ==
    IF task.state = "pending" THEN [task EXCEPT !.state = "cancelling"] ELSE task

\* The `finally` up to its await, entered where the generator is: at
\* `yield result` after the signal, at `yield comment` when the consumer has
\* left the stream there, or at `await asyncio.wait` when the consumer's task
\* is cancelled, which throws CancelledError out of the wait whether or not a
\* task it waits for is done, and cancels none of them. cancel() on the tasks
\* in active_segments, on chunked_entries_task and on program_info_task, and
\* the call of gather.
LoopFinally ==
    /\ UNCHANGED otherThanLoop
    /\ loop_pc \in {"suspended", "yielded", "waiting"}
    /\ loop_tasks' =
          [i \in DOMAIN loop_tasks |->
              IF loop_tasks[i].kind \in {"worker", "driver", "monitor"}
              THEN LoopCancel(loop_tasks[i]) ELSE loop_tasks[i]]
    /\ loop_pc' = IF loop_pc = "waiting" THEN "cancelled" ELSE "gathering"
    /\ UNCHANGED <<loop_wait, loop_done, loop_queue, loop_yielded, loop_puts>>

\* The step of a task on which cancel() was called: CancelledError is thrown
\* into it and the task ends cancelled (the worker through its `finally`,
\* which pops its URI).
LoopTaskCancelled ==
    /\ UNCHANGED otherThanLoop
    /\ \E i \in DOMAIN loop_tasks :
          /\ loop_tasks[i].state = "cancelling"
          /\ loop_tasks' = [loop_tasks EXCEPT ![i].state = "cancelled"]
    /\ UNCHANGED <<loop_pc, loop_wait, loop_done, loop_queue, loop_yielded, loop_puts>>

\* `await asyncio.gather(..., return_exceptions=True)` returns: every task it
\* was given is over. A queue-get task woken by a put was scheduled before
\* the cancellations and has run by then. The generator is closed, or the
\* CancelledError that entered the `finally` goes on to the consumer.
LoopGatherReturns ==
    /\ UNCHANGED otherThanLoop
    /\ loop_pc \in {"gathering", "cancelled"}
    /\ \A i \in DOMAIN loop_tasks : loop_tasks[i].state # "cancelling"
    /\ loop_queue # <<>> => LoopPending("get") = {}
    /\ loop_pc' = IF loop_pc = "cancelled" THEN "raised" ELSE "closed"
    /\ UNCHANGED <<loop_tasks, loop_wait, loop_done, loop_queue, loop_yielded, loop_puts>>

NextLoop ==
    \/ LoopCreate \/ LoopWorkerPut \/ LoopWorkerEnd \/ LoopDriverEnd
    \/ LoopGetCompletes \/ LoopMonitorReturns \/ LoopWaitReturns \/ LoopHandle
    \/ LoopFinally \/ LoopTaskCancelled \/ LoopGatherReturns

SpecLoop == InitLoop /\ [][NextLoop]_vars

\* C39 (as claimed): once the `finally` of an instance has completed, none of
\* the tasks the instance created is pending.
C39_NoTaskOutlives ==
    loop_pc \in {"closed", "raised"} =>
        \A i \in DOMAIN loop_tasks : loop_tasks[i].state # "pending"

-----------------------------------------------------------------------------
(* fetchProtobufStream: what is retried and what each attempt decodes.      *)

\* The buffer of an attempt holds the last bytes this attempt has received and
\* none of an attempt before; a run that raised a decode error made no GET and
\* no wait after the GET of the attempt that met it; every wait follows a
\* transport fault.
C40_AttemptsApart ==
    /\ fpc \in {"body", "drain"} =>
          /\ Len(buffer) <= pos
          /\ buffer = SubSeq(stream, pos - Len(buffer) + 1, pos)
    /\ (fpc = "raised" /\ fetchErr.kind = "decode") =>
          /\ ~ENABLED NextFetch
          /\ fetchLog[Len(fetchLog)] = "GET"
          /\ CountOf(fetchLog, "GET") = fetchErr.attempt + 1
          /\ CountOf(fetchLog, "SLEEP") = fetchErr.attempt
          /\ CountOf(fetchLog, "FAULT") = fetchErr.attempt
    /\ \A i \in 1..Len(fetchLog) :
          fetchLog[i] = "SLEEP" => (i > 1 /\ fetchLog[i - 1] = "FAULT")
    /\ \A i \in 1..Len(out) : ParsesFromString(out[i])

\* The first message that does not parse ends the run with the decode error:
\* no wait, no further attempt, nothing yielded for it.
C40_DecodeStep ==
    (/\ fpc = "drain"
     /\ unshiftChunk(buffer).ret.kind = "payload"
     /\ ~ParsesFromString(unshiftChunk(buffer).ret.bytes))
        => /\ fpc' = "raised"
           /\ fetchErr' = [kind |-> "decode", attempt |-> attempt]
           /\ fetchLog' = fetchLog /\ attempt' = attempt /\ out' = out

\* C40: fetchProtobufStream retries transport faults only: a message that
\* does not parse is raised to the consumer at its first occurrence with no
\* retry and no wait; and every attempt decodes from an empty buffer, so bytes
\* a failed attempt left are never joined with bytes of the next attempt.
C40_TransportFaultsOnly == []C40_AttemptsApart /\ [][C40_DecodeStep]_vars

\* A retry after a transport fault has decoded the body from its start again
\* (the first message was yielded by both attempts) and has met the message
\* that does not parse: the decode error is raised from the second attempt.
C40_Witness ==
    /\ fpc = "raised" /\ fetchErr.kind = "decode" /\ fetchErr.attempt = 1
    /\ Len(out) = 2 /\ out[1] = out[2]
    /\ fetchLog = <<"GET", "FAULT", "SLEEP", "GET">>

====
